---- MODULE Spec2Model ----
(***************************************************************************)
(* Model of the document pipeline of sf-document-uploader:                 *)
(*   ProcessDocuments = collectDocuments -> bulkLookupEntities ->          *)
(*   bulkUploadContentVersions -> bulkCreateAttachmentUploaders.           *)
(*                                                                         *)
(* The repository holds three revisions of the processor package.  The     *)
(* variable rev selects the revision whose code a behaviour follows:       *)
(*   "document" : src/internal/processor/document.go                       *)
(*   "part_001" : src/unnamed/part_001                                     *)
(*   "part_002" : src/unnamed/part_002                                     *)
(***************************************************************************)
EXTENDS Integers, Sequences, FiniteSets, TLC

VARIABLES
    rev,          \* revision of package processor that runs
    dir,          \* state of documentsDir: "ok", "" (none selected), "missing"
    tree,         \* indices in FileUniverse of the files under documentsDir
    fs,           \* MIME type of the files: fs.root by path under documentsDir,
                  \* fs.cwd by name in the working directory of the process
    pc,           \* position of ProcessDocuments
    documents,    \* []models.DocumentInfo, shared by all stages
    lvl,          \* bulkLookupEntities: index in levels of the next level
    foundIds,     \* bulkLookupEntities: keys of the foundIds map
    lookupErrors, \* bulkLookupEntities: accumulated LookupError values
    sent,         \* history: every request issued to the remote, in order
    answers,      \* history: every lookup result received
    excluded,     \* history: lookups left out because the parent key was missing
    returned,     \* history: return value of each stage and of ProcessDocuments
    batchStart,   \* upload and join: loop variable i, start of the current chunk
    respCount,    \* upload: sub-results of the current response processed so far
    subResult,    \* upload: loop variable result, the sub-result processed last
    nextVersion,  \* remote: number of content versions created so far
    faults,       \* history: what went wrong at the remote or on disk in the upload
    parsed,       \* the parsers alone: the file given to them and what they return
    gui           \* the window: fields of gui.App, its widgets and the running handlers

resolverVars == <<lvl, foundIds, lookupErrors, answers, excluded>>

uploadVars == <<batchStart, respCount, subResult, nextVersion, faults>>

vars == <<rev, dir, tree, fs, pc, documents, lvl, foundIds, lookupErrors,
          sent, answers, excluded, returned, batchStart, respCount,
          subResult, nextVersion, faults, parsed, gui>>

-----------------------------------------------------------------------------
(* Bounds *)

MaxLookupDocs == 4

MaxFiles == 2

\* the sub-results of one composite response that are followed
MaxSubResults == 3

\* the name components of a file name after its codes
MaxNameParts == 6

-----------------------------------------------------------------------------
(* Go maps *)

EmptyMap == [k \in {} |-> ""]

\* m[k] of a Go map[string]string: the zero value "" when k is absent
Get(m, k) == IF k \in DOMAIN m THEN m[k] ELSE ""

\* m[k] = v
Put(m, k, v) == [x \in (DOMAIN m) \cup {k} |-> IF x = k THEN v ELSE m[x]]

Max(S) == CHOOSE x \in S : \A y \in S : y <= x

RECURSIVE SetToSeq(_)
\* the elements of a Go map range, in one (unspecified) order
SetToSeq(S) == IF S = {} THEN <<>>
               ELSE LET x == CHOOSE y \in S : TRUE IN <<x>> \o SetToSeq(S \ {x})

Range(f) == {f[x] : x \in DOMAIN f}

-----------------------------------------------------------------------------
(* models.DocumentInfo and the files the walker finds *)

\* no file has been given to a parser
NoParse == [parser |-> "none"]

\* no window has been opened
NoGui == [window |-> "none"]

Revisions == {"document", "part_001", "part_002"}

DocumentInfo(file, rel, entityType, namePath, documentType) ==
    [kind |-> "doc", FilePath |-> file, RelativePath |-> rel,
     EntityType |-> entityType, NamePath |-> namePath,
     DocumentType |-> documentType,
     SalesforceIds |-> EmptyMap, ContentDocumentId |-> ""]

PhasePath(ph) == [project |-> "P", phase |-> ph]
ZonePath(ph, z) == [project |-> "P", phase |-> ph, zone |-> z]
BuildingPath(ph, z, b) == [project |-> "P", phase |-> ph, zone |-> z, building |-> b]
UnitPath(ph, z, b, u) ==
    [project |-> "P", phase |-> ph, zone |-> z, building |-> b, unit |-> u]
DesignTypePath(ph, d) == [project |-> "P", phase |-> ph, designType |-> d]

\* A file that is not a document: kind "hidden" (name starts with ".") or
\* "bad" (its name or path does not parse).
OtherFile(kind, file, rel) == [kind |-> kind, FilePath |-> file, RelativePath |-> rel]

\* The files a documents directory may hold, in the lexical order in which
\* filepath.Walk visits them.
FileUniverse == <<
    OtherFile("hidden", ".DS_Store", ".DS_Store"),
    DocumentInfo("bl_a.pdf", "P/Ph1/Z1/B1/bl_a.pdf", "BUILDING",
                 BuildingPath("Ph1", "Z1", "B1"), "Building Location"),
    DocumentInfo("fp_b.pdf", "P/Ph1/Z1/B1/fp_b.pdf", "BUILDING",
                 BuildingPath("Ph1", "Z1", "B1"), "Floor Plan"),
    DocumentInfo("up_U1.pdf", "P/Ph1/Z1/B1/units/up_U1.pdf", "UNIT",
                 UnitPath("Ph1", "Z1", "B1", "U1"), "Unit Plan"),
    DocumentInfo("bl_a.pdf", "P/Ph1/Z1/B2/bl_a.pdf", "BUILDING",
                 BuildingPath("Ph1", "Z1", "B2"), "Building Location"),
    DocumentInfo("up_U2.pdf", "P/Ph1/Z1/B2/units/up_U2.pdf", "UNIT",
                 UnitPath("Ph1", "Z1", "B2", "U2"), "Unit Plan"),
    DocumentInfo("f_a.pdf", "P/Ph1/Z1/f_a.pdf", "ZONE",
                 ZonePath("Ph1", "Z1"), "Finish"),
    OtherFile("bad", "zz_a.pdf", "P/Ph1/Z1/zz_a.pdf"),
    DocumentInfo("bl_a.pdf", "P/Ph1/Z2/B1/bl_a.pdf", "BUILDING",
                 BuildingPath("Ph1", "Z2", "B1"), "Building Location"),
    DocumentInfo("up_U1.pdf", "P/Ph1/Z2/B1/units/up_U1.pdf", "UNIT",
                 UnitPath("Ph1", "Z2", "B1", "U1"), "Unit Plan"),
    DocumentInfo("f_a.pdf", "P/Ph1/Z2/f_a.pdf", "ZONE",
                 ZonePath("Ph1", "Z2"), "Finish"),
    DocumentInfo("g_D1.pdf", "P/Ph1/design_types/g_D1.pdf", "DESIGN_TYPE",
                 DesignTypePath("Ph1", "D1"), "Gallery"),
    DocumentInfo("pp_a.pdf", "P/Ph1/pp_a.pdf", "PHASE",
                 PhasePath("Ph1"), "Project Plan") >>

DocIndices == {i \in 1..Len(FileUniverse) : FileUniverse[i].kind = "doc"}

\* a MIME type as mimetype.DetectFile reports it: type "/" subtype
Mime(main, sub) == [main |-> main, sub |-> sub]

\* a file system in which every file under documentsDir is a PDF and the working
\* directory holds no file of the same name
PdfFiles(paths) == [root |-> [p \in paths |-> Mime("application", "pdf")], cwd |-> EmptyMap]

RECURSIVE FilesOf(_)
\* the files of a tree in walk order
FilesOf(S) == IF S = {} THEN <<>>
              ELSE LET i == CHOOSE j \in S : \A k \in S : j <= k
                   IN <<FileUniverse[i]>> \o FilesOf(S \ {i})

-----------------------------------------------------------------------------
(* Helpers of package processor *)

\* an order of the levels that looks up design types before zones; the
\* level-order property must tell it from the real one
levelsDesignTypeEarly == <<"PHASE", "DESIGN_TYPE", "ZONE", "BUILDING", "UNIT">>

levels == <<"PHASE", "ZONE", "BUILDING", "UNIT", "DESIGN_TYPE">>

\* strings.ToLower(entityType)
ToLower(entityType) ==
    CASE entityType = "PHASE" -> "phase"
      [] entityType = "ZONE" -> "zone"
      [] entityType = "BUILDING" -> "building"
      [] entityType = "UNIT" -> "unit"
      [] entityType = "DESIGN_TYPE" -> "design_type"
      [] OTHER -> ""

getParentKey(entityType, namePath) ==
    CASE entityType = "PHASE" -> ""
      [] entityType = "ZONE" -> "PHASE_" \o Get(namePath, "phase")
      [] entityType = "BUILDING" -> "ZONE_" \o Get(namePath, "zone")
      [] entityType = "UNIT" -> "BUILDING_" \o Get(namePath, "building")
      [] entityType = "DESIGN_TYPE" -> "PHASE_" \o Get(namePath, "phase")
      [] OTHER -> ""

generateFullPath(doc) ==
    CASE doc.EntityType = "UNIT" ->
            Get(doc.NamePath, "project") \o "/Phase " \o Get(doc.NamePath, "phase")
            \o "/Zone " \o Get(doc.NamePath, "zone")
            \o "/Building " \o Get(doc.NamePath, "building")
            \o "/Unit " \o Get(doc.NamePath, "unit")
      [] doc.EntityType = "BUILDING" ->
            Get(doc.NamePath, "project") \o "/Phase " \o Get(doc.NamePath, "phase")
            \o "/Zone " \o Get(doc.NamePath, "zone")
            \o "/Building " \o Get(doc.NamePath, "building")
      [] doc.EntityType = "ZONE" ->
            Get(doc.NamePath, "project") \o "/Phase " \o Get(doc.NamePath, "phase")
            \o "/Zone " \o Get(doc.NamePath, "zone")
      [] doc.EntityType = "PHASE" ->
            Get(doc.NamePath, "project") \o "/Phase " \o Get(doc.NamePath, "phase")
      [] doc.EntityType = "DESIGN_TYPE" ->
            Get(doc.NamePath, "project") \o "/Phase " \o Get(doc.NamePath, "phase")
            \o "/Design Type " \o Get(doc.NamePath, "designType")
      [] OTHER -> doc.FilePath

compareNamePaths(path1, path2) ==
    /\ Cardinality(DOMAIN path1) = Cardinality(DOMAIN path2)
    /\ \A k \in DOMAIN path1 : k \in DOMAIN path2 /\ path1[k] = path2[k]

EntityLookup(entityType, namePath) == [EntityType |-> entityType, NamePath |-> namePath]

LookupError(entityType, path, details) ==
    [EntityType |-> entityType, Path |-> path, Details |-> details]

-----------------------------------------------------------------------------
(* The remote lookup service *)

\* the id the remote holds for an entity
RemoteId(lookup) == "id:" \o lookup.EntityType \o ":" \o generateFullPath(lookup)

ErrorResult == "ERROR:Entity not found"

\* strings.HasPrefix(resultId, "ERROR:")
HasErrorPrefix(resultId) == resultId = ErrorResult

\* The results map of one executeBulkLookup call: per distinct lookup of the
\* request the remote answers with the id, answers with an ERROR: string, or has
\* no entry for it.
Outcomes == {"id", "err", "none"}

Results(lookups, outcome) ==
    {[lookup |-> l,
      id |-> IF outcome[l] = "id" THEN RemoteId(l) ELSE ErrorResult] :
        l \in {k \in Range(lookups) : outcome[k] # "none"}}

LookupRequest(level, lookups) == [stage |-> "lookup", level |-> level, lookups |-> lookups]

-----------------------------------------------------------------------------
(* Reference ids of composite sub-requests *)

Digits == <<"0", "1", "2", "3", "4", "5", "6", "7", "8", "9">>

RECURSIVE Itoa(_)
\* the decimal digits of n >= 0, one character per element: the %d of fmt.Sprintf
Itoa(n) == IF n < 10 THEN <<Digits[n + 1]>>
           ELSE Itoa(n \div 10) \o <<Digits[(n % 10) + 1]>>

RECURSIVE Concat(_)
\* the string made of the characters
Concat(chars) == IF chars = <<>> THEN "" ELSE Head(chars) \o Concat(Tail(chars))

\* fmt.Sprintf("ref%d", i)
RefToken(i) == <<"r", "e", "f">> \o Itoa(i)

\* no sub-result of a composite response has been read yet
NoSubResult == [HttpStatusCode |-> 0, ReferenceId |-> <<>>, Body |-> "", id |-> ""]

\* strings.TrimPrefix(s, prefix)
TrimPrefix(s, prefix) ==
    IF Len(s) >= Len(prefix) /\ SubSeq(s, 1, Len(prefix)) = prefix
    THEN SubSeq(s, Len(prefix) + 1, Len(s))
    ELSE s

DigitValue(c) == (CHOOSE d \in 1..10 : Digits[d] = c) - 1

RECURSIVE DecimalValue(_)
DecimalValue(s) == IF s = <<>> THEN 0
                   ELSE 10 * DecimalValue(SubSeq(s, 1, Len(s) - 1)) + DigitValue(s[Len(s)])

\* the value strconv.Atoi returns (its error is dropped by the callers): an
\* optional sign and at least one digit, and 0 for anything else
Atoi(s) ==
    LET signed == Len(s) > 0 /\ s[1] \in {"+", "-"}
        body == IF signed THEN Tail(s) ELSE s
    IN IF body = <<>> \/ \E k \in 1..Len(body) : body[k] \notin Range(Digits) THEN 0
       ELSE IF signed /\ s[1] = "-" THEN 0 - DecimalValue(body)
       ELSE DecimalValue(body)

-----------------------------------------------------------------------------
(* ProcessDocuments: the order of the stages *)

Stages == <<"collect", "lookup", "upload", "join">>

\* per stage and for ProcessDocuments "none", "ok", "err" or "panic"; under
\* "error" the message of the error a stage returned
NoResults == [s \in Range(Stages) \cup {"process", "error"} |-> "none"]

\* a ProcessDocuments that went on to the next stage whatever the stage returned;
\* the stage-order property must tell it from the real one
StageExitIgnoringErr(stage, err) ==
    CASE stage = "collect" -> "lookup"
      [] stage = "lookup" -> "upload"
      [] stage = "upload" -> "join"
      [] stage = "join" -> "done"

\* where ProcessDocuments goes when the stage returns: on to the next stage, or
\* out with the error
StageExit(stage, err) ==
    IF err THEN "failed"
    ELSE CASE stage = "collect" -> "lookup"
           [] stage = "lookup" -> "upload"
           [] stage = "upload" -> "join"
           [] stage = "join" -> "done"

\* a stage panics: the goroutine that runs ProcessDocuments dies
Panicked(res, stage) == [res EXCEPT ![stage] = "panic", !["process"] = "panic"]

\* the stage returns err (TRUE) or nil; ProcessDocuments returns with the last one
Returned(res, stage, err) ==
    [res EXCEPT ![stage] = IF err THEN "err" ELSE "ok",
                !["process"] = IF StageExit(stage, err) = "failed" THEN "err"
                               ELSE IF StageExit(stage, err) = "done" THEN "ok"
                               ELSE @]

\* the stage returns fmt.Errorf(msg)
ReturnedError(res, stage, msg) == [Returned(res, stage, TRUE) EXCEPT !["error"] = msg]

-----------------------------------------------------------------------------
(* bulkLookupEntities, part_001 and part_002 *)

ParentMissing(level, namePath) ==
    LET parentKey == getParentKey(level, namePath)
    IN parentKey # "" /\ parentKey \notin foundIds

\* part_002: the levels a document adds a path to
AncestryLevels(entityType) ==
    CASE entityType = "UNIT" -> {"PHASE", "ZONE", "BUILDING", "UNIT"}
      [] entityType = "BUILDING" -> {"PHASE", "ZONE", "BUILDING"}
      [] entityType = "ZONE" -> {"PHASE", "ZONE"}
      [] entityType = "PHASE" -> {"PHASE"}
      [] entityType = "DESIGN_TYPE" -> {"PHASE", "DESIGN_TYPE"}
      [] OTHER -> {}

\* part_002: the namePath key whose value keys pathsByLevel[level]
LeafKey(level) ==
    CASE level = "PHASE" -> "phase"
      [] level = "ZONE" -> "zone"
      [] level = "BUILDING" -> "building"
      [] level = "UNIT" -> "unit"
      [] level = "DESIGN_TYPE" -> "designType"

\* part_002: the NamePath keys of the DocumentInfo synthesised for an ancestor
LevelKeys(level) ==
    CASE level = "PHASE" -> {"project", "phase"}
      [] level = "ZONE" -> {"project", "phase", "zone"}
      [] level = "BUILDING" -> {"project", "phase", "zone", "building"}

\* part_002: the value stored in pathsByLevel[level] for doc
PathEntry(doc, level) ==
    IF level = doc.EntityType
    THEN EntityLookup(level, doc.NamePath)
    ELSE EntityLookup(level, [k \in LevelKeys(level) |-> Get(doc.NamePath, k)])

\* part_002: pathsByLevel[level] after the loop over documents; a later document
\* overwrites the entry an earlier one stored under the same leaf name
pathsByLevel(level) ==
    LET C == {i \in 1..Len(documents) : level \in AncestryLevels(documents[i].EntityType)}
        leaf(i) == Get(documents[i].NamePath, LeafKey(level))
    IN [n \in {leaf(i) : i \in C} |->
            PathEntry(documents[Max({i \in C : leaf(i) = n})], level)]

\* part_001: entityLevels[level]
DocsAtLevel(level) == {i \in 1..Len(documents) : documents[i].EntityType = level}

\* part_001: the documents of the level whose parent key is not in foundIds
Orphans(level) ==
    {i \in DocsAtLevel(level) : ParentMissing(level, documents[i].NamePath)}

\* part_001: parentGroups, keyed by generateFullPath
parentGroups(level) ==
    LET D == DocsAtLevel(level) \ Orphans(level)
    IN [k \in {generateFullPath(documents[i]) : i \in D} |->
            {i \in D : generateFullPath(documents[i]) = k}]

\* docs[0] of a group
GroupHead(g) == documents[CHOOSE i \in g : \A j \in g : i <= j]

\* the lookups left out of the level's request because the parent key is missing
ExcludedAt(level) ==
    IF rev = "part_002"
    THEN {p \in Range(pathsByLevel(level)) : ParentMissing(level, p.NamePath)}
    ELSE {EntityLookup(level, documents[i].NamePath) : i \in Orphans(level)}

\* part_001: the errors appended for the documents whose parent is missing;
\* part_002 only logs them
ParentErrors(level) ==
    IF rev = "part_002" THEN {}
    ELSE {LookupError(level, generateFullPath(documents[i]),
                      "Parent entity not found for " \o level) : i \in Orphans(level)}

\* a request that carries one lookup per document of the level, duplicates
\* included; the deduplication property must tell it from the real one
LookupsPerDocument(level) ==
    LET D == {i \in DocsAtLevel(level) : ~ParentMissing(level, documents[i].NamePath)}
    IN [k \in 1..Cardinality(D) |->
          EntityLookup(level,
              documents[CHOOSE i \in D : Cardinality({j \in D : j <= i}) = k].NamePath)]

\* bulkRequest.Lookups of the level
Lookups(level) ==
    IF rev = "part_002"
    THEN SetToSeq(Range(pathsByLevel(level)) \ ExcludedAt(level))
    ELSE LET groups == parentGroups(level)
         IN SetToSeq({EntityLookup(level, GroupHead(groups[k]).NamePath) :
                        k \in DOMAIN groups})

\* whether the level's iteration reaches executeBulkLookup
LevelSends(level) ==
    IF rev = "part_002"
    THEN Lookups(level) # <<>>
    ELSE DocsAtLevel(level) # {} /\ Orphans(level) = {} /\ Lookups(level) # <<>>

\* part_001: the result matched to a group, the first whose NamePath compares equal
GroupMatch(results, g) ==
    {r \in results : compareNamePaths(r.lookup.NamePath, GroupHead(g).NamePath)}

\* the LookupError values appended while the results are processed
ResultErrors(level, results) ==
    IF rev = "part_002"
    THEN {LookupError(level, generateFullPath(EntityLookup(level, r.lookup.NamePath)), r.id) :
            r \in {x \in results : HasErrorPrefix(x.id)}}
    ELSE LET groups == parentGroups(level)
         IN {LookupError(level, k, (CHOOSE r \in GroupMatch(results, groups[k]) : TRUE).id) :
               k \in {x \in DOMAIN groups :
                        /\ GroupMatch(results, groups[x]) # {}
                        /\ HasErrorPrefix((CHOOSE r \in GroupMatch(results, groups[x]) : TRUE).id)}}

\* the keys added to foundIds while the results are processed
FoundKeys(level, results) ==
    IF rev = "part_002"
    THEN {level \o "_" \o Get(r.lookup.NamePath, ToLower(level)) :
            r \in {x \in results : ~HasErrorPrefix(x.id)}}
    ELSE LET groups == parentGroups(level)
         IN {level \o "_" \o Get(GroupHead(groups[k]).NamePath, ToLower(level)) :
               k \in {x \in DOMAIN groups :
                        /\ GroupMatch(results, groups[x]) # {}
                        /\ ~HasErrorPrefix((CHOOSE r \in GroupMatch(results, groups[x]) : TRUE).id)}}

\* a matching that gives a result to every document of the level whatever its
\* path; the stored-id property must tell it from the real one
DocMatchesAnyPath(level, results, i) ==
    {r \in results : ~HasErrorPrefix(r.id) /\ documents[i].EntityType = level}

\* the results whose id is stored on document i
DocMatches(level, results, i) ==
    IF rev = "part_002"
    THEN {r \in results :
            /\ ~HasErrorPrefix(r.id)
            /\ documents[i].EntityType = level
            /\ compareNamePaths(r.lookup.NamePath, documents[i].NamePath)}
    ELSE LET groups == parentGroups(level)
             mine == {k \in DOMAIN groups : i \in groups[k]}
         IN IF mine = {} THEN {}
            ELSE {r \in GroupMatch(results, groups[CHOOSE k \in mine : TRUE]) :
                    ~HasErrorPrefix(r.id)}

\* documents after the results of the level are processed
StoreIds(level, results) ==
    [i \in 1..Len(documents) |->
        IF DocMatches(level, results, i) = {} THEN documents[i]
        ELSE [documents[i] EXCEPT !.SalesforceIds =
                Put(@, ToLower(level), (CHOOSE r \in DocMatches(level, results, i) : TRUE).id)]]

\* One iteration of the loop over the levels that does not reach the remote:
\* no document of the level, or every lookup left out (part_002), or some
\* document of the level without a resolved parent (part_001).
LookupSkipLevel ==
    /\ pc = "lookup" /\ rev # "document" /\ lvl <= Len(levels)
    /\ ~LevelSends(levels[lvl])
    /\ lookupErrors' = lookupErrors \cup ParentErrors(levels[lvl])
    /\ excluded' = excluded \cup ExcludedAt(levels[lvl])
    /\ lvl' = lvl + 1
    /\ UNCHANGED <<parsed, gui, rev, dir, tree, fs, pc, documents, foundIds, sent, answers, returned, uploadVars>>

\* One iteration that sends the level's request and processes its results.
LookupLevel ==
    /\ pc = "lookup" /\ rev # "document" /\ lvl <= Len(levels)
    /\ LevelSends(levels[lvl])
    /\ LET level == levels[lvl]
           lookups == Lookups(level)
       IN \E outcome \in [Range(lookups) -> Outcomes] :
            LET results == Results(lookups, outcome)
            IN /\ sent' = Append(sent, LookupRequest(level, lookups))
               /\ answers' = answers \cup results
               /\ excluded' = excluded \cup ExcludedAt(level)
               /\ lookupErrors' = lookupErrors \cup ParentErrors(level)
                                     \cup ResultErrors(level, results)
               /\ foundIds' = foundIds \cup FoundKeys(level, results)
               /\ documents' = StoreIds(level, results)
    /\ lvl' = lvl + 1
    /\ UNCHANGED <<parsed, gui, rev, dir, tree, fs, pc, returned, uploadVars>>

\* executeBulkLookup returns an error: bulkLookupEntities returns it at once.
LookupCallFails ==
    /\ pc = "lookup" /\ rev # "document" /\ lvl <= Len(levels)
    /\ LevelSends(levels[lvl])
    /\ sent' = Append(sent, LookupRequest(levels[lvl], Lookups(levels[lvl])))
    /\ excluded' = excluded \cup ExcludedAt(levels[lvl])
    /\ pc' = StageExit("lookup", TRUE)
    /\ returned' = Returned(returned, "lookup", TRUE)
    /\ UNCHANGED <<parsed, gui, rev, dir, tree, fs, documents, lvl, foundIds, lookupErrors, answers, uploadVars>>

\* After the last level: the aggregate error, or success.
LookupFinish ==
    /\ pc = "lookup" /\ rev # "document" /\ lvl = Len(levels) + 1
    /\ pc' = StageExit("lookup", lookupErrors # {})
    /\ returned' = Returned(returned, "lookup", lookupErrors # {})
    /\ UNCHANGED <<parsed, gui, rev, dir, tree, fs, documents, lvl, foundIds, lookupErrors,
                   sent, answers, excluded, uploadVars>>

-----------------------------------------------------------------------------
(* bulkLookupEntities, document.go *)

\* one lookup per document, in document order
FlatLookups == [i \in 1..Len(documents) |->
                  EntityLookup(documents[i].EntityType, documents[i].NamePath)]

\* the result matched to document i
FlatMatch(results, i) ==
    {r \in results :
        /\ r.lookup.EntityType = documents[i].EntityType
        /\ compareNamePaths(r.lookup.NamePath, documents[i].NamePath)}

\* the documents for which the loop returns an error: no result, or an ERROR: one
FlatFailures(results) ==
    {i \in 1..Len(documents) :
        \/ FlatMatch(results, i) = {}
        \/ HasErrorPrefix((CHOOSE r \in FlatMatch(results, i) : TRUE).id)}

\* documents when the loop ends: ids are stored up to the first failing document
FlatStoreIds(results) ==
    [i \in 1..Len(documents) |->
        IF \E j \in FlatFailures(results) : j <= i THEN documents[i]
        ELSE [documents[i] EXCEPT !.SalesforceIds =
                Put(@, ToLower(documents[i].EntityType),
                    (CHOOSE r \in FlatMatch(results, i) : TRUE).id)]]

LookupFlat ==
    /\ pc = "lookup" /\ rev = "document"
    /\ \E outcome \in [Range(FlatLookups) -> Outcomes] :
         LET results == Results(FlatLookups, outcome)
         IN /\ sent' = Append(sent, LookupRequest("", FlatLookups))
            /\ answers' = answers \cup results
            /\ documents' = FlatStoreIds(results)
            /\ pc' = StageExit("lookup", FlatFailures(results) # {})
            /\ returned' = Returned(returned, "lookup", FlatFailures(results) # {})
    /\ UNCHANGED <<parsed, gui, rev, dir, tree, fs, lvl, foundIds, lookupErrors, excluded, uploadVars>>

LookupFlatCallFails ==
    /\ pc = "lookup" /\ rev = "document"
    /\ sent' = Append(sent, LookupRequest("", FlatLookups))
    /\ pc' = StageExit("lookup", TRUE)
    /\ returned' = Returned(returned, "lookup", TRUE)
    /\ UNCHANGED <<parsed, gui, rev, dir, tree, fs, documents, lvl, foundIds, lookupErrors,
                   answers, excluded, uploadVars>>

-----------------------------------------------------------------------------
(* The resolver alone: bulkLookupEntities called on the documents of a tree *)

\* the documents of a tree, as DocumentWalker.Walk appends them
DocumentsOf(S) == FilesOf(S \cap DocIndices)

InitResolver ==
    /\ rev \in Revisions
    /\ dir = "ok"
    /\ tree \in {S \in SUBSET DocIndices : Cardinality(S) \in 1..MaxLookupDocs}
    /\ fs = PdfFiles({FileUniverse[i].RelativePath : i \in tree})
    /\ documents = DocumentsOf(tree)
    /\ pc = "lookup"
    /\ lvl = 1
    /\ foundIds = {}
    /\ lookupErrors = {}
    /\ sent = <<>>
    /\ answers = {}
    /\ excluded = {}
    /\ returned = [NoResults EXCEPT !["collect"] = "ok"]
    /\ batchStart = 0
    /\ respCount = 0
    /\ subResult = NoSubResult
    /\ nextVersion = 0
    /\ faults = {}
    /\ parsed = NoParse
    /\ gui = NoGui

NextResolver ==
    \/ LookupSkipLevel
    \/ LookupLevel
    \/ LookupCallFails
    \/ LookupFinish
    \/ LookupFlat
    \/ LookupFlatCallFails

SpecResolver == InitResolver /\ [][NextResolver]_vars

-----------------------------------------------------------------------------
(* collectDocuments *)

\* a walk that skips the files that do not parse
WalkNeverFails(S) == FALSE

\* the error of the walk: part_001 and part_002 skip hidden files and fail on the
\* first file that does not parse; document.go parses every entry of the directory
WalkFails(S) ==
    IF rev = "document"
    THEN \E i \in S : FileUniverse[i].kind # "doc"
    ELSE \E i \in S : FileUniverse[i].kind = "bad"

\* a collectDocuments without the check of len(documents)
CollectFailsOnWalkOnly ==
    \/ dir # "ok"
    \/ WalkFails(tree)

\* the error of collectDocuments (and of the checks ProcessDocuments makes first)
CollectFails ==
    \/ dir # "ok"
    \/ WalkFails(tree)
    \/ rev # "document" /\ DocumentsOf(tree) = <<>>

Collect ==
    /\ pc = "start"
    /\ documents' = IF CollectFails THEN <<>> ELSE DocumentsOf(tree)
    /\ pc' = StageExit("collect", CollectFails)
    /\ returned' = Returned(returned, "collect", CollectFails)
    /\ UNCHANGED <<parsed, gui, rev, dir, tree, fs, sent, resolverVars, uploadVars>>

-----------------------------------------------------------------------------
(* bulkUploadContentVersions *)

min(a, b) == IF a < b THEN a ELSE b

batchSize == IF rev = "part_001" THEN 1 ELSE 25

\* a slicing that puts every remaining sub-request into the chunk; the chunking
\* property must tell it from the real one
ChunkRefsToEnd(i) == [k \in 1..(Len(documents) - i) |-> RefToken(i + k - 1)]

\* referenceIds of allRequests[i:end], the sub-requests of the chunk that starts at i
ChunkRefs(i) ==
    [k \in 1..(min(i + batchSize, Len(documents)) - i) |-> RefToken(i + k - 1)]

UploadRequest(i) == [stage |-> "upload", refs |-> ChunkRefs(i)]

\* the ids the remote gives to the k-th content version it creates and to the
\* content document of that version
VersionId(k) == "068" \o Concat(Itoa(k))

ContentDocId(k) == "069" \o Concat(Itoa(k))

\* The sub-results a composite response may carry.  Body is "object" (a JSON
\* object with a string id), "noid" (an object without one) or "array".
\* The tokens it carries are those of the first two and of the last document,
\* one past the last, one without a number and a negative one.
TokenIndices == {0, 1, Len(documents) - 1, Len(documents)}

ResponseTokens ==
    {RefToken(k) : k \in TokenIndices}
        \cup {<<"r", "e", "f", "x">>, <<"r", "e", "f", "-", "1">>}

SubResults ==
    {[HttpStatusCode |-> 201, ReferenceId |-> t, Body |-> "object",
      id |-> VersionId(nextVersion + 1)] : t \in ResponseTokens}
    \cup {[HttpStatusCode |-> 201, ReferenceId |-> RefToken(0), Body |-> b, id |-> ""] :
            b \in {"noid", "array"}}
    \cup {[HttpStatusCode |-> 400, ReferenceId |-> t, Body |-> "array", id |-> ""] :
            t \in {RefToken(0), RefToken(1)}}

\* a matching of sub-results to documents by their place in the response; the
\* token property must tell it from the real one
RefIndexByPosition(referenceId) == batchStart + respCount

\* refIndex, _ := strconv.Atoi(strings.TrimPrefix(result.ReferenceId, "ref"))
RefIndex(referenceId) == Atoi(TrimPrefix(referenceId, <<"r", "e", "f">>))

\* the type assertion successBody["id"].(string) or the index documents[refIndex]
\* panics
SubResultPanics(r) ==
    /\ r.Body \in {"object", "noid"}
    /\ RefIndex(r.ReferenceId) < Len(documents)
    /\ r.Body = "noid" \/ RefIndex(r.ReferenceId) < 0

\* documents[refIndex].SalesforceIds["contentVersionId"] = versionId is reached
SubResultStores(r) ==
    /\ r.Body = "object"
    /\ RefIndex(r.ReferenceId) < Len(documents)
    /\ RefIndex(r.ReferenceId) >= 0

StoreVersionId(docs, r) ==
    [docs EXCEPT ![RefIndex(r.ReferenceId) + 1].SalesforceIds =
        Put(@, "contentVersionId", r.id)]

\* the sub-result is what a remote that creates every version answers: a 201 with
\* the new id, for a sub-request of the chunk that has no answer yet
FaithfulSubResult(r) ==
    /\ r.HttpStatusCode = 201
    /\ r.Body = "object"
    /\ r.ReferenceId \in Range(ChunkRefs(batchStart))
    /\ "contentVersionId" \notin DOMAIN documents[RefIndex(r.ReferenceId) + 1].SalesforceIds

\* where bulkUploadContentVersions goes after the loop over the chunks
AfterChunks == IF rev = "part_002" THEN "upload_dist" ELSE "upload_ids"

\* a loop over the documents that goes on to the chunks whether or not a file
\* was read
AfterReadsIgnoringFailure(readFails) ==
    IF Len(documents) = 0 THEN AfterChunks ELSE "upload_send"

\* where bulkUploadContentVersions goes after the loop that reads the files
AfterReads(readFails) ==
    IF readFails THEN StageExit("upload", TRUE)
    ELSE IF Len(documents) = 0 THEN AfterChunks
    ELSE "upload_send"

\* The loop over the documents that reads every file and builds allRequests.
UploadPrepare ==
    /\ pc = "upload"
    /\ \E readFails \in BOOLEAN :
         /\ readFails => Len(documents) > 0
         /\ faults' = IF readFails THEN faults \cup {"read"} ELSE faults
         /\ pc' = AfterReads(readFails)
         /\ returned' = IF AfterReads(readFails) = "failed"
                        THEN Returned(returned, "upload", TRUE) ELSE returned
    /\ batchStart' = 0
    /\ UNCHANGED <<parsed, gui, rev, dir, tree, fs, documents, sent, resolverVars,
                   respCount, subResult, nextVersion>>

\* The composite request of the chunk is sent and its response decoded.
UploadSend ==
    /\ pc = "upload_send"
    /\ sent' = Append(sent, UploadRequest(batchStart))
    /\ respCount' = 0
    /\ pc' = "upload_resp"
    /\ UNCHANGED <<parsed, gui, rev, dir, tree, fs, documents, resolverVars, returned,
                   batchStart, subResult, nextVersion, faults>>

\* The composite call fails, or its response does not decode.
UploadCallFails ==
    /\ pc = "upload_send"
    /\ sent' = Append(sent, UploadRequest(batchStart))
    /\ faults' = faults \cup {"call"}
    /\ pc' = StageExit("upload", TRUE)
    /\ returned' = Returned(returned, "upload", TRUE)
    /\ UNCHANGED <<parsed, gui, rev, dir, tree, fs, documents, resolverVars,
                   batchStart, respCount, subResult, nextVersion>>

\* a loop that takes every sub-result for a created version
SubResultNeverFails(r) == FALSE

\* if result.HttpStatusCode != 201
SubResultFails(r) == r.HttpStatusCode # 201

\* fmt.Sprintf("failed to create ContentVersion for reference %s: status %d", ...)
StatusError(r) ==
    "failed to create ContentVersion for reference " \o Concat(r.ReferenceId)
        \o ": status " \o Concat(Itoa(r.HttpStatusCode))

\* One iteration of the loop over compositeResponse.CompositeResponse.
UploadSubResult ==
    /\ pc = "upload_resp"
    /\ respCount < min(Len(ChunkRefs(batchStart)), MaxSubResults)
    /\ \E r \in SubResults :
         /\ subResult' = r
         /\ IF SubResultFails(r)
            THEN /\ pc' = StageExit("upload", TRUE)
                 /\ returned' = ReturnedError(returned, "upload", StatusError(r))
                 /\ faults' = faults \cup {"status"}
                 /\ UNCHANGED <<documents, nextVersion>>
            ELSE /\ nextVersion' = nextVersion + 1
                 /\ faults' = (IF FaithfulSubResult(r) THEN faults ELSE faults \cup {"echo"})
                                 \cup (IF r.HttpStatusCode # 201 THEN {"status"} ELSE {})
                 /\ pc' = IF SubResultPanics(r) THEN "panic" ELSE pc
                 /\ returned' = IF SubResultPanics(r) THEN Panicked(returned, "upload")
                                ELSE returned
                 /\ documents' = IF SubResultStores(r) THEN StoreVersionId(documents, r)
                                  ELSE documents
    /\ respCount' = respCount + 1
    /\ UNCHANGED <<parsed, gui, rev, dir, tree, fs, sent, resolverVars, batchStart>>

\* The response has no further sub-result: on to the next chunk.
UploadChunkEnd ==
    /\ pc = "upload_resp"
    /\ batchStart' = batchStart + batchSize
    /\ pc' = IF batchStart + batchSize < Len(documents) THEN "upload_send" ELSE AfterChunks
    /\ faults' = IF respCount < Len(ChunkRefs(batchStart)) THEN faults \cup {"short"}
                 ELSE faults
    /\ UNCHANGED <<parsed, gui, rev, dir, tree, fs, documents, sent, resolverVars, returned,
                   respCount, subResult, nextVersion>>

\* document.go, part_001: the quoted ids of the SOQL IN clause, in document order
versionIds ==
    LET has == {i \in 1..Len(documents) : "contentVersionId" \in DOMAIN documents[i].SalesforceIds}
    IN [k \in 1..Cardinality(has) |->
          documents[CHOOSE i \in has : Cardinality({j \in has : j <= i}) = k]
              .SalesforceIds["contentVersionId"]]

QueryRequest == [stage |-> "query", ids |-> versionIds]

\* cdIdMap built from the records of the query response; known is the set of
\* versions for which the remote returns a record
cdIdMap(known) == [v \in {VersionId(k) : k \in known} |->
                     ContentDocId(CHOOSE k \in known : VersionId(k) = v)]

SetContentDocumentIds(docs, map) ==
    [i \in 1..Len(docs) |->
        IF /\ "contentVersionId" \in DOMAIN docs[i].SalesforceIds
           /\ docs[i].SalesforceIds["contentVersionId"] \in DOMAIN map
        THEN [docs[i] EXCEPT !.ContentDocumentId = map[docs[i].SalesforceIds["contentVersionId"]]]
        ELSE docs[i]]

\* the versions whose ids the query asks for
QueriedVersions == {k \in 1..nextVersion : VersionId(k) \in Range(versionIds)}

\* document.go, part_001: the ContentDocument ids are fetched with one query,
\* which is not sent when no document has a contentVersionId.
UploadRetrieveIds ==
    /\ pc = "upload_ids"
    /\ IF versionIds = <<>>
       THEN UNCHANGED <<sent, documents, faults>>
       ELSE /\ sent' = Append(sent, QueryRequest)
            /\ \E known \in SUBSET QueriedVersions :
                 /\ documents' = SetContentDocumentIds(documents, cdIdMap(known))
                 /\ faults' = IF known = QueriedVersions THEN faults
                              ELSE faults \cup {"query"}
    /\ pc' = "upload_verify"
    /\ UNCHANGED <<parsed, gui, rev, dir, tree, fs, resolverVars, returned,
                   batchStart, respCount, subResult, nextVersion>>

\* The query call fails, or its response does not decode.
UploadQueryFails ==
    /\ pc = "upload_ids"
    /\ versionIds # <<>>
    /\ sent' = Append(sent, QueryRequest)
    /\ faults' = faults \cup {"call"}
    /\ pc' = StageExit("upload", TRUE)
    /\ returned' = Returned(returned, "upload", TRUE)
    /\ UNCHANGED <<parsed, gui, rev, dir, tree, fs, documents, resolverVars,
                   batchStart, respCount, subResult, nextVersion>>

\* a verification that lets every document through; the durable-id property must
\* tell it from the real one
VerifyNeverFails(docs) == FALSE

\* the loop "Verifying ContentDocument IDs" returns an error
VerifyFails(docs) == \E i \in 1..Len(docs) : docs[i].ContentDocumentId = ""

UploadVerify ==
    /\ pc = "upload_verify"
    /\ pc' = StageExit("upload", VerifyFails(documents))
    /\ returned' = Returned(returned, "upload", VerifyFails(documents))
    /\ UNCHANGED <<parsed, gui, rev, dir, tree, fs, documents, sent, resolverVars, uploadVars>>

\* part_002, createContentDistributions: the indices of the documents a
\* distribution is requested for
DistributionRequests == {i \in 1..Len(documents) : documents[i].ContentDocumentId # ""}

DistributionRequest ==
    [stage |-> "distribution",
     refs |-> SetToSeq({<<"d", "i", "s", "t", "R", "e", "f">> \o Itoa(i - 1) :
                          i \in DistributionRequests})]

\* the documents whose sub-result is 201 and whose distribution details are
\* obtained: any of the first two and the last, and all or none of the others
DistributionAnswers ==
    LET D == DistributionRequests
        ends == D \cap {1, 2, Len(documents)}
    IN {G \cup R : G \in SUBSET ends, R \in {{}, D \ ends}}

\* the ContentDownloadUrl of each of them; it may be empty
DistributionUrls(got) ==
    LET ends == got \cap {1, 2, Len(documents)}
    IN {[i \in got |-> IF i \in ends THEN u[i] ELSE "https://download"] :
          u \in [ends -> {"", "https://download"}]}

\* part_002: createContentDistributions, called once the chunks are uploaded.
\* urls[i] is the ContentDownloadUrl fetched for the distribution of document i;
\* i is not in its domain when the sub-result is not 201 or the details are not
\* obtained.  The stage fails when the composite call or its decoding fails.
CreateContentDistributions ==
    /\ pc = "upload_dist"
    /\ IF DistributionRequests = {}
       THEN /\ pc' = StageExit("upload", TRUE)
            /\ returned' = ReturnedError(returned, "upload",
                                         "no documents to create distributions for")
            /\ UNCHANGED <<sent, documents>>
       ELSE /\ sent' = Append(sent, DistributionRequest)
            /\ \E callFails \in BOOLEAN :
                 /\ \E got \in DistributionAnswers :
                      \E urls \in DistributionUrls(got) :
                         /\ callFails => got = {}
                         /\ documents' = [i \in 1..Len(documents) |->
                              IF i \in got
                              THEN [documents[i] EXCEPT !.SalesforceIds =
                                       Put(@, "distributionUrl", urls[i])]
                              ELSE documents[i]]
                 /\ pc' = StageExit("upload", callFails)
                 /\ returned' = Returned(returned, "upload", callFails)
    /\ UNCHANGED <<parsed, gui, rev, dir, tree, fs, resolverVars, uploadVars>>

-----------------------------------------------------------------------------
(* The uploader alone: bulkUploadContentVersions called on resolved documents *)

\* the k-th unit plan of a building, with its unit id resolved
UnitDocument(k) ==
    [DocumentInfo("up_U" \o Concat(Itoa(k)) \o ".pdf",
                  "P/Ph1/Z1/B1/units/up_U" \o Concat(Itoa(k)) \o ".pdf", "UNIT",
                  UnitPath("Ph1", "Z1", "B1", "U" \o Concat(Itoa(k))), "Unit Plan")
        EXCEPT !.SalesforceIds = Put(@, "unit", "id:UNIT:" \o Concat(Itoa(k)))]

\* collections of one document, of two, and of one more than a chunk holds
UploadSizes == {1, 2, batchSize + 1}

InitUpload ==
    /\ rev \in Revisions
    /\ dir = "ok"
    /\ tree = {}
    /\ \E n \in UploadSizes : documents = [k \in 1..n |-> UnitDocument(k)]
    /\ fs = PdfFiles({documents[k].RelativePath : k \in 1..Len(documents)})
    /\ pc = "upload"
    /\ lvl = 1
    /\ foundIds = {}
    /\ lookupErrors = {}
    /\ sent = <<>>
    /\ answers = {}
    /\ excluded = {}
    /\ returned = [NoResults EXCEPT !["collect"] = "ok", !["lookup"] = "ok"]
    /\ batchStart = 0
    /\ respCount = 0
    /\ subResult = NoSubResult
    /\ nextVersion = 0
    /\ faults = {}
    /\ parsed = NoParse
    /\ gui = NoGui

NextUpload ==
    \/ UploadPrepare
    \/ UploadSend
    \/ UploadCallFails
    \/ UploadSubResult
    \/ UploadChunkEnd
    \/ UploadRetrieveIds
    \/ UploadQueryFails
    \/ UploadVerify
    \/ CreateContentDistributions

SpecUpload == InitUpload /\ [][NextUpload]_vars

-----------------------------------------------------------------------------
(* bulkCreateAttachmentUploaders *)

joinBatchSize == 25

\* a switch that finds an id for every document
entityIdOfAnyDocument(doc) == "id:" \o doc.EntityType

\* the id selected by the switch on doc.EntityType
entityId(doc) ==
    IF doc.EntityType \in Range(levels)
    THEN Get(doc.SalesforceIds, ToLower(doc.EntityType))
    ELSE ""

\* the documents a record is built for, in document order
JoinDocs ==
    LET ok == {i \in 1..Len(documents) :
                 documents[i].ContentDocumentId # "" /\ entityId(documents[i]) # ""}
    IN [k \in 1..Cardinality(ok) |->
          CHOOSE i \in ok : Cardinality({j \in ok : j <= i}) = k]

\* fmt.Sprintf("attRef%d", i)
AttRefToken(i) == <<"a", "t", "t", "R", "e", "f">> \o Itoa(i)

ContentTypeImage == "Image"
ContentTypePDF == "PDF"
ContentTypeVideo == "Video"

\* the tag of the file the working directory holds under that name
getContentType(filename) ==
    IF filename \notin DOMAIN fs.cwd THEN ContentTypeImage
    ELSE LET mime == fs.cwd[filename]
         IN CASE mime.main = "image" -> ContentTypeImage
              [] mime = Mime("application", "pdf") -> ContentTypePDF
              [] mime.main = "video" -> ContentTypeVideo
              [] OTHER -> ContentTypeImage

\* fmt.Sprintf("/lightning/r/ContentDocument/%s/view", id)
DeepLink(id) == "/lightning/r/ContentDocument/" \o id \o "/view"

\* the value of Attachment_Url__c
AttachmentUrl(doc) ==
    IF rev = "part_002" /\ Get(doc.SalesforceIds, "distributionUrl") # ""
    THEN Get(doc.SalesforceIds, "distributionUrl")
    ELSE DeepLink(doc.ContentDocumentId)

\* the sub-request built for document i (1-based)
JoinRecord(i) ==
    [referenceId |-> AttRefToken(i - 1),
     doc |-> i,
     Name |-> entityId(documents[i]),
     Content_Type |-> getContentType(documents[i].FilePath),
     ContentDocumentId |-> documents[i].ContentDocumentId,
     Attachment_Url |-> AttachmentUrl(documents[i])]

\* allRequests[i:end]
JoinChunk(i) ==
    LET all == JoinDocs
    IN [k \in 1..(min(i + joinBatchSize, Len(all)) - i) |-> JoinRecord(all[i + k])]

JoinRequest(i) ==
    LET chunk == JoinChunk(i)
    IN [stage |-> "join",
        refs |-> [k \in 1..Len(chunk) |-> chunk[k].referenceId],
        records |-> chunk]

\* The loop over the documents that builds allRequests.
JoinPrepare ==
    /\ pc = "join"
    /\ batchStart' = 0
    /\ pc' = IF JoinDocs = <<>> THEN StageExit("join", TRUE) ELSE "join_send"
    /\ returned' = IF JoinDocs = <<>>
                   THEN ReturnedError(returned, "join", "no valid records to create")
                   ELSE returned
    /\ UNCHANGED <<parsed, gui, rev, dir, tree, fs, documents, sent, resolverVars,
                   respCount, subResult, nextVersion, faults>>

\* One chunk of records is sent; the call or one of its sub-results may fail.
JoinSend ==
    /\ pc = "join_send"
    /\ sent' = Append(sent, JoinRequest(batchStart))
    /\ \E fails \in BOOLEAN :
         /\ batchStart' = IF fails THEN batchStart ELSE batchStart + joinBatchSize
         /\ pc' = IF fails THEN StageExit("join", TRUE)
                  ELSE IF batchStart + joinBatchSize < Len(JoinDocs) THEN "join_send"
                  ELSE StageExit("join", FALSE)
         /\ returned' = IF fails THEN Returned(returned, "join", TRUE)
                        ELSE IF batchStart + joinBatchSize < Len(JoinDocs) THEN returned
                        ELSE Returned(returned, "join", FALSE)
    /\ UNCHANGED <<parsed, gui, rev, dir, tree, fs, documents, resolverVars,
                   respCount, subResult, nextVersion, faults>>

-----------------------------------------------------------------------------
(* The join-record creator alone: bulkCreateAttachmentUploaders called on
   uploaded documents *)

\* the MIME types mimetype.DetectFile is made to report
MimeTypes == {Mime("application", "pdf"), Mime("image", "png"),
              Mime("video", "mp4"), Mime("text", "plain")}

\* the k-th unit plan as the earlier stages may leave it: with or without its
\* content-document id, its own unit id and a download URL
JoinDocument(k, hasCd, hasId, url) ==
    LET base == UnitDocument(k)
        own == IF hasId THEN base.SalesforceIds ELSE EmptyMap
        ver == IF hasCd THEN Put(own, "contentVersionId", VersionId(k)) ELSE own
        ids == IF url = "none" THEN ver ELSE Put(ver, "distributionUrl", url)
    IN [base EXCEPT !.SalesforceIds = ids,
                    !.ContentDocumentId = IF hasCd THEN ContentDocId(k) ELSE ""]

\* collections of one document, of two, and of one more than a chunk holds
JoinSizes == {1, 2, joinBatchSize + 1}

\* The file of the first document has any of the MIME types, and the working
\* directory holds no file of its name, that very file, or another file.
InitJoin ==
    /\ rev \in Revisions
    /\ dir = "ok"
    /\ tree = {}
    /\ \E n \in JoinSizes :
         \E noCd \in SUBSET {1, n}, noId \in SUBSET ({1, 2} \cap 1..n) :
            \E url \in IF rev = "part_002" THEN {"none", "", "https://download"}
                       ELSE {"none"} :
               documents = [k \in 1..n |->
                              JoinDocument(k, k \notin noCd, k \notin noId,
                                           IF k = 1 THEN url ELSE "none")]
    /\ \E own \in {Mime("application", "pdf"), Mime("image", "png")} :
         \E local \in [{documents[1].FilePath} -> MimeTypes] \cup {EmptyMap} :
            fs = [root |-> [p \in {documents[k].RelativePath : k \in 1..Len(documents)} |->
                              IF p = documents[1].RelativePath THEN own
                              ELSE Mime("application", "pdf")],
                  cwd |-> local]
    /\ pc = "join"
    /\ lvl = 1
    /\ foundIds = {}
    /\ lookupErrors = {}
    /\ sent = <<>>
    /\ answers = {}
    /\ excluded = {}
    /\ returned = [NoResults EXCEPT !["collect"] = "ok", !["lookup"] = "ok",
                                    !["upload"] = "ok"]
    /\ batchStart = 0
    /\ respCount = 0
    /\ subResult = NoSubResult
    /\ nextVersion = 0
    /\ faults = {}
    /\ parsed = NoParse
    /\ gui = NoGui

NextJoin ==
    \/ JoinPrepare
    \/ JoinSend

SpecJoin == InitJoin /\ [][NextJoin]_vars

-----------------------------------------------------------------------------
(* The distribution creator alone: createContentDistributions called on
   documents that carry their content-document ids *)

InitDistribution ==
    /\ rev = "part_002"
    /\ dir = "ok"
    /\ tree = {}
    /\ \E n \in UploadSizes :
         /\ \E noCd \in SUBSET {1, n} :
              documents = [k \in 1..n |-> JoinDocument(k, k \notin noCd, TRUE, "none")]
         /\ nextVersion = n
    /\ fs = PdfFiles({documents[k].RelativePath : k \in 1..Len(documents)})
    /\ pc = "upload_dist"
    /\ lvl = 1
    /\ foundIds = {}
    /\ lookupErrors = {}
    /\ sent = <<>>
    /\ answers = {}
    /\ excluded = {}
    /\ returned = [NoResults EXCEPT !["collect"] = "ok", !["lookup"] = "ok"]
    /\ batchStart = 0
    /\ respCount = 0
    /\ subResult = NoSubResult
    /\ faults = {}
    /\ parsed = NoParse
    /\ gui = NoGui

NextDistribution ==
    \/ CreateContentDistributions
    \/ JoinPrepare
    \/ JoinSend

SpecDistribution == InitDistribution /\ [][NextDistribution]_vars

-----------------------------------------------------------------------------
(* ProcessDocuments on a documents directory *)

Init ==
    /\ rev \in Revisions
    /\ dir \in {"ok", "", "missing"}
    /\ tree \in {S \in SUBSET (1..Len(FileUniverse)) : Cardinality(S) <= MaxFiles}
    /\ fs = PdfFiles({FileUniverse[i].RelativePath : i \in tree})
    /\ documents = <<>>
    /\ pc = "start"
    /\ lvl = 1
    /\ foundIds = {}
    /\ lookupErrors = {}
    /\ sent = <<>>
    /\ answers = {}
    /\ excluded = {}
    /\ returned = NoResults
    /\ batchStart = 0
    /\ respCount = 0
    /\ subResult = NoSubResult
    /\ nextVersion = 0
    /\ faults = {}
    /\ parsed = NoParse
    /\ gui = NoGui

Next ==
    \/ Collect
    \/ LookupSkipLevel
    \/ LookupLevel
    \/ LookupCallFails
    \/ LookupFinish
    \/ LookupFlat
    \/ LookupFlatCallFails
    \/ UploadPrepare
    \/ UploadSend
    \/ UploadCallFails
    \/ UploadSubResult
    \/ UploadChunkEnd
    \/ UploadRetrieveIds
    \/ UploadQueryFails
    \/ UploadVerify
    \/ CreateContentDistributions
    \/ JoinPrepare
    \/ JoinSend

Spec == Init /\ [][Next]_vars

-----------------------------------------------------------------------------
(* ProcessDocuments run twice on the same directory against the same remote *)

\* the directories of the two runs: up to MaxFiles of a phase plan, a zone plan
\* and a design type plan
TwiceFiles == {7, 12, 13}

InitTwice ==
    /\ Init
    /\ dir = "ok"
    /\ tree # {}
    /\ tree \subseteq TwiceFiles

\* the mark left in the history between the two runs, with the first one's result
RunMark == [stage |-> "run", result |-> returned["process"]]

\* ProcessDocuments has returned and is called again: a new call starts from
\* the directory alone, the remote keeps what was created in it
RunAgain ==
    /\ pc \in {"done", "failed"}
    /\ \A i \in 1..Len(sent) : sent[i].stage # "run"
    /\ sent' = Append(sent, RunMark)
    /\ pc' = "start"
    /\ documents' = <<>>
    /\ lvl' = 1
    /\ foundIds' = {}
    /\ lookupErrors' = {}
    /\ answers' = {}
    /\ excluded' = {}
    /\ returned' = NoResults
    /\ batchStart' = 0
    /\ respCount' = 0
    /\ subResult' = NoSubResult
    /\ faults' = {}
    /\ UNCHANGED <<parsed, gui, rev, dir, tree, fs, nextVersion>>

NextTwice ==
    \/ Next
    \/ RunAgain

SpecTwice == InitTwice /\ [][NextTwice]_vars

-----------------------------------------------------------------------------
(* The parsers alone: ParseFileName (flat) and parseDocument (path-aware) *)

\* A file name is the sequence of its '_'-separated components; a component is
\* a stem without a dot and the extension that follows it, "" when it has none.
\* Only the last component of a name has an extension.
Component(stem, ext) == [stem |-> stem, ext |-> ext]

\* the component as the string strings.Split returns
Str(c) == c.stem \o c.ext

RECURSIVE JoinStems(_)
\* strings.Join(parts, "_") of components whose extension was trimmed
JoinStems(parts) ==
    IF Len(parts) = 0 THEN ""
    ELSE IF Len(parts) = 1 THEN parts[1].stem
    ELSE parts[1].stem \o "_" \o JoinStems(Tail(parts))

ParseError(msg) == [ok |-> FALSE, err |-> msg]

Parsed(entityType, namePath, documentType) ==
    [ok |-> TRUE, EntityType |-> entityType, NamePath |-> namePath,
     DocumentType |-> documentType]

\* parser.go: the docTypes map of parseDocumentType
docTypes ==
    [bl |-> "Building Location", f |-> "Finish", fp |-> "Floor Plan", g |-> "Gallery",
     pp |-> "Project Plan", up |-> "Unit Plan", gd |-> "Generic Document"]

\* walker.go: the switch of setDocumentType; "" for its default branch
setDocumentType(prefix) ==
    CASE prefix = "bl" -> "Building Location"
      [] prefix = "f" -> "Finish"
      [] prefix = "fp" -> "Floor Plan"
      [] prefix = "g" -> "Gallery"
      [] prefix = "pp" -> "Project Plan"
      [] prefix = "up" -> "Unit Plan"
      [] OTHER -> ""

\* a check that lets names with too many components through
WrongArityIfFewer(code, n) ==
    n < (CASE code = "u" -> 5 [] code = "p" -> 2 [] code = "z" -> 3
           [] code = "b" -> 4 [] code = "dt" -> 3)

\* parser.go: the checks len(remaining) != k of parseEntityType
WrongArity(code, n) ==
    n # (CASE code = "u" -> 5 [] code = "p" -> 2 [] code = "z" -> 3
           [] code = "b" -> 4 [] code = "dt" -> 3)

\* parser.go: parseEntityType on parts[1:], with the document type found before
parseEntityType(parts, documentType) ==
    LET code == Str(parts[1])
        remaining == Tail(parts)
        n == Len(remaining)
    IN IF code \notin {"u", "p", "z", "b", "dt"}
       THEN ParseError("unknown entity type identifier")
       ELSE IF WrongArity(code, n)
       THEN ParseError("invalid filename format: wrong number of parts")
       ELSE CASE code = "u" ->
                   Parsed("UNIT",
                          [project |-> Str(remaining[1]), phase |-> Str(remaining[2]),
                           building |-> Str(remaining[4]), unit |-> remaining[5].stem],
                          documentType)
              [] code = "p" ->
                   Parsed("PHASE",
                          [project |-> Str(remaining[1]), phase |-> remaining[2].stem],
                          documentType)
              [] code = "z" ->
                   Parsed("ZONE",
                          [project |-> Str(remaining[1]), phase |-> Str(remaining[2]),
                           zone |-> remaining[3].stem],
                          documentType)
              [] code = "b" ->
                   Parsed("BUILDING",
                          [project |-> Str(remaining[1]), phase |-> Str(remaining[2]),
                           zone |-> Str(remaining[3]), building |-> remaining[4].stem],
                          documentType)
              [] code = "dt" ->
                   Parsed("DESIGN_TYPE",
                          [project |-> Str(remaining[1]), phase |-> Str(remaining[2]),
                           designType |-> remaining[3].stem],
                          documentType)

\* parser.go: ParseFileName
ParseFileName(filename) ==
    IF Len(filename) < 3 THEN ParseError("invalid filename format")
    ELSE IF Str(filename[1]) \notin DOMAIN docTypes
    THEN ParseError("unknown document type prefix")
    ELSE parseEntityType(Tail(filename), docTypes[Str(filename[1])])

\* walker.go: processPathComponents; fileNameParts are the components of the
\* name whose extension was trimmed
processPathComponents(pathComponents, fileNameParts) ==
    LET n == Len(pathComponents)
        prefix == fileNameParts[1].stem
        project == [project |-> pathComponents[1]]
    IN IF n < 1 THEN ParseError("invalid path structure: missing project name")
       ELSE IF n >= 3 /\ pathComponents[3] = "design_types"
       THEN Parsed("DESIGN_TYPE",
                   IF Len(fileNameParts) > 1
                   THEN [project |-> pathComponents[1], phase |-> pathComponents[2],
                         designType |-> JoinStems(Tail(fileNameParts))]
                   ELSE [project |-> pathComponents[1], phase |-> pathComponents[2]],
                   setDocumentType(prefix))
       ELSE IF setDocumentType(prefix) = ""
       THEN ParseError("unknown document type prefix")
       ELSE CASE n = 2 /\ prefix = "pp" ->
                   Parsed("PHASE",
                          [project |-> pathComponents[1], phase |-> pathComponents[2]],
                          setDocumentType(prefix))
              [] n = 3 /\ prefix = "f" ->
                   Parsed("ZONE",
                          [project |-> pathComponents[1], phase |-> pathComponents[2],
                           zone |-> pathComponents[3]],
                          setDocumentType(prefix))
              [] n >= 5 /\ pathComponents[5] = "units" ->
                   IF Len(fileNameParts) > 1
                   THEN Parsed("UNIT",
                               [project |-> pathComponents[1], phase |-> pathComponents[2],
                                zone |-> pathComponents[3], building |-> pathComponents[4],
                                unit |-> JoinStems(Tail(fileNameParts))],
                               setDocumentType(prefix))
                   ELSE ParseError("invalid unit filename format")
              [] n >= 4 ->
                   Parsed("BUILDING",
                          [project |-> pathComponents[1], phase |-> pathComponents[2],
                           zone |-> pathComponents[3], building |-> pathComponents[4]],
                          setDocumentType(prefix))
              [] OTHER -> ParseError("invalid path structure")

\* walker.go: parseDocument
parseDocument(fileName, pathComponents) ==
    IF setDocumentType(fileName[1].stem) = ""
    THEN ParseError("unknown document type prefix")
    ELSE processPathComponents(pathComponents, fileName)

\* the names given to the parsers: a document-type code (xx is none), for the
\* flat parser an entity code (q is none), and up to MaxNameParts further
\* components N1, N2, ..; the last component has the extension .pdf or none
FileNames(withEntityCode) ==
    LET codes == {"bl", "f", "fp", "g", "pp", "up", "gd", "xx"}
        entities == IF withEntityCode THEN {"u", "p", "z", "b", "dt", "q"} ELSE {"-"}
        Stems(c, e, k) ==
            <<c>> \o (IF e = "-" THEN <<>> ELSE <<e>>)
                \o [i \in 1..k |-> "N" \o Concat(Itoa(i))]
        Name(stems, ext) ==
            [i \in 1..Len(stems) |->
               Component(stems[i], IF i = Len(stems) THEN ext ELSE "")]
    IN {Name(Stems(c, e, k), ext) :
          c \in codes, e \in entities, k \in 0..MaxNameParts, ext \in {".pdf", ""}}
       \cup (IF withEntityCode
             THEN {Name(<<c>>, ext) : c \in codes, ext \in {".pdf", ""}}
             ELSE {})

\* the directories of a file below the root, as Split(Dir(relPath)) gives them
Directories ==
    {<<".">>, <<"P">>, <<"P", "Ph1">>, <<"P", "Ph1", "Z1">>,
     <<"P", "Ph1", "design_types">>, <<"P", "Ph1", "Z1", "B1">>,
     <<"P", "Ph1", "Z1", "B1", "units">>, <<"P", "Ph1", "Z1", "B1", "plans">>,
     <<"P", "Ph1", "Z1", "B1", "units", "more">>,
     <<"P", "Ph1", "design_types", "D1">>}

InitParse ==
    /\ parsed \in [parser : {"flat"}, file : FileNames(TRUE), path : {<<>>},
                   result : {ParseError("")}]
                  \cup [parser : {"walker"}, file : FileNames(FALSE), path : Directories,
                        result : {ParseError("")}]
    /\ gui = NoGui
    /\ rev = "part_002"
    /\ dir = "ok"
    /\ tree = {}
    /\ fs = PdfFiles({})
    /\ documents = <<>>
    /\ pc = "parse"
    /\ lvl = 1
    /\ foundIds = {}
    /\ lookupErrors = {}
    /\ sent = <<>>
    /\ answers = {}
    /\ excluded = {}
    /\ returned = NoResults
    /\ batchStart = 0
    /\ respCount = 0
    /\ subResult = NoSubResult
    /\ nextVersion = 0
    /\ faults = {}

\* ParseFileName(file.Name())
ParseFlat ==
    /\ pc = "parse"
    /\ parsed.parser = "flat"
    /\ parsed' = [parsed EXCEPT !.result = ParseFileName(parsed.file)]
    /\ pc' = "parsed"
    /\ UNCHANGED <<gui, rev, dir, tree, fs, documents, sent, returned,
                   resolverVars, uploadVars>>

\* parseDocument(fileName, pathComponents)
ParseWalker ==
    /\ pc = "parse"
    /\ parsed.parser = "walker"
    /\ parsed' = [parsed EXCEPT !.result = parseDocument(parsed.file, parsed.path)]
    /\ pc' = "parsed"
    /\ UNCHANGED <<gui, rev, dir, tree, fs, documents, sent, returned,
                   resolverVars, uploadVars>>

NextParse ==
    \/ ParseFlat
    \/ ParseWalker

SpecParse == InitParse /\ [][NextParse]_vars

-----------------------------------------------------------------------------
(* Properties of ProcessDocuments *)

\* the stage (index into Stages) a remote request belongs to
StageOfRequest(req) ==
    CASE req.stage = "lookup" -> 2
      [] req.stage \in {"upload", "query", "distribution"} -> 3
      [] req.stage = "join" -> 4

\* the stage (index into Stages) the control point belongs to, 5 once past them
StageOfPc ==
    CASE pc = "start" -> 1
      [] pc = "lookup" -> 2
      [] pc \in {"upload", "upload_send", "upload_resp", "upload_ids",
                 "upload_verify", "upload_dist", "panic"} -> 3
      [] pc \in {"join", "join_send"} -> 4
      [] pc = "done" -> 5
      [] pc = "failed" ->
           Max({0} \cup {k \in 1..Len(Stages) : returned[Stages[k]] # "none"})

\* C1: the four stages run strictly in the order collect, lookup, upload, join:
\* requests are issued in stage order, a stage is entered (and any of its
\* requests issued) only after every earlier stage returned success, and once a
\* stage has returned an error no request of a later stage is ever issued, no
\* later stage runs, and ProcessDocuments has returned that error.
C1_StagesInOrder ==
    /\ \A i, j \in 1..Len(sent) :
         i < j => StageOfRequest(sent[i]) <= StageOfRequest(sent[j])
    /\ \A i \in 1..Len(sent) : \A k \in 1..Len(Stages) :
         k < StageOfRequest(sent[i]) => returned[Stages[k]] = "ok"
    /\ \A k \in 1..Len(Stages) :
         k < StageOfPc => returned[Stages[k]] = "ok"
    /\ \A k \in 1..Len(Stages) :
         returned[Stages[k]] = "err" =>
            /\ returned["process"] = "err"
            /\ pc = "failed"
            /\ \A m \in 1..Len(Stages) : m > k => returned[Stages[m]] = "none"
            /\ \A i \in 1..Len(sent) : StageOfRequest(sent[i]) <= k
    /\ returned["process"] = "ok" =>
         \A k \in 1..Len(Stages) : returned[Stages[k]] = "ok"

\* a run in which all four stages ran, each issuing its requests, and one in
\* which a stage failed after requests had been issued
C1_Witness ==
    /\ pc = "done"
    /\ returned["process"] = "ok"
    /\ {StageOfRequest(sent[i]) : i \in 1..Len(sent)} = {2, 3, 4}

-----------------------------------------------------------------------------
(* Properties of bulkLookupEntities *)

OwnLookup(doc) == EntityLookup(doc.EntityType, doc.NamePath)

\* the id stored under the key of the document's own level, "" when absent
OwnId(doc) == Get(doc.SalesforceIds, ToLower(doc.EntityType))

\* the lookup was an entry of some request of the run
LookupWasSent(l) ==
    \E i \in 1..Len(sent) : sent[i].stage = "lookup" /\ l \in Range(sent[i].lookups)

\* the number of entries for the lookup over all requests of the run
EntriesSent(l) ==
    Cardinality({<<i, k>> \in (1..Len(sent)) \X (1..MaxLookupDocs + 3) :
                    /\ sent[i].stage = "lookup"
                    /\ k <= Len(sent[i].lookups)
                    /\ sent[i].lookups[k] = l})

\* the aggregate error has an entry for the entity
Reported(entityType, path) ==
    \E e \in lookupErrors : e.EntityType = entityType /\ e.Path = path

\* the level-by-level resolver went through every level and returned
ResolverEnded ==
    rev \in {"part_001", "part_002"} /\ lvl = Len(levels) + 1 /\ returned["lookup"] # "none"

\* C2: whenever bulkLookupEntities returns success every document has a
\* non-empty id under the key of its own level (so an unresolved entity, whether
\* unanswered, answered with ERROR: or left out for its parent, makes it fail).
C2_SuccessMeansResolved ==
    (rev \in {"part_001", "part_002"} /\ returned["lookup"] = "ok") =>
        \A i \in 1..Len(documents) : OwnId(documents[i]) # ""

\* C3: once the resolver has gone through the levels, a UNIT document whose
\* BUILDING parent is not resolved was left out of the UNIT request and is
\* reported in the failing result, and a UNIT document whose parent is resolved
\* was sent and has the id the remote answered with.
C3_UnitExclusion ==
    ResolverEnded =>
        \A i \in 1..Len(documents) :
            documents[i].EntityType = "UNIT" =>
                IF ParentMissing("UNIT", documents[i].NamePath)
                THEN /\ ~LookupWasSent(OwnLookup(documents[i]))
                     /\ returned["lookup"] = "err"
                     /\ Reported("UNIT", generateFullPath(documents[i]))
                ELSE /\ LookupWasSent(OwnLookup(documents[i]))
                     /\ \A r \in answers :
                          (r.lookup = OwnLookup(documents[i]) /\ ~HasErrorPrefix(r.id))
                              => OwnId(documents[i]) = r.id

\* the documents that share their (entityType, namePath) with another document
Duplicates ==
    {i \in 1..Len(documents) :
        \E j \in 1..Len(documents) :
            j # i /\ OwnLookup(documents[j]) = OwnLookup(documents[i])}

\* C4 as stated: once the resolver has gone through the levels, a pair shared by
\* two or more documents was sent as exactly one lookup entry and each of the
\* documents has a resolved id.
C4_ExactlyOneLookup ==
    ResolverEnded =>
        \A i \in Duplicates :
            /\ EntriesSent(OwnLookup(documents[i])) = 1
            /\ OwnId(documents[i]) # ""

\* C4, amended: at any point of the run at most one lookup entry has been sent
\* for a pair shared by two or more documents, and when the remote answered that
\* entry with an id every document of the pair holds that id.
C4_AtMostOneLookup ==
    rev \in {"part_001", "part_002"} =>
        \A i \in Duplicates :
            /\ EntriesSent(OwnLookup(documents[i])) <= 1
            /\ \A r \in answers :
                 (r.lookup = OwnLookup(documents[i]) /\ ~HasErrorPrefix(r.id))
                     => OwnId(documents[i]) = r.id

\* two documents of one building whose single lookup entry was answered with an id
C4_Witness ==
    /\ rev \in {"part_001", "part_002"}
    /\ \E i \in Duplicates :
         /\ EntriesSent(OwnLookup(documents[i])) = 1
         /\ OwnId(documents[i]) = RemoteId(OwnLookup(documents[i]))
         /\ \A j \in Duplicates :
              OwnLookup(documents[j]) = OwnLookup(documents[i])
                  => OwnId(documents[j]) = OwnId(documents[i])

\* the place of a level in the order PHASE, ZONE, BUILDING, UNIT, DESIGN_TYPE
LevelRank(level) ==
    CASE level = "PHASE" -> 1
      [] level = "ZONE" -> 2
      [] level = "BUILDING" -> 3
      [] level = "UNIT" -> 4
      [] level = "DESIGN_TYPE" -> 5
      [] OTHER -> 0

\* C5: the lookup requests of a run are for distinct levels and follow the order
\* PHASE, ZONE, BUILDING, UNIT, DESIGN_TYPE; a request is sent only when the
\* iterations of all earlier levels are over, and carries lookups of its level only.
C5_LevelOrder ==
    rev \in {"part_001", "part_002"} =>
        LET L == {i \in 1..Len(sent) : sent[i].stage = "lookup"}
        IN /\ \A i, j \in L :
                i < j => LevelRank(sent[i].level) < LevelRank(sent[j].level)
           /\ \A i \in L :
                /\ LevelRank(sent[i].level) \in 1..5
                /\ pc = "lookup" => LevelRank(sent[i].level) < lvl
                /\ \A l \in Range(sent[i].lookups) : l.EntityType = sent[i].level

\* a run that sent a request for a child level after the one of its parent level
\* and one for DESIGN_TYPE last
C5_Witness ==
    /\ rev \in {"part_001", "part_002"}
    /\ Len(sent) >= 3
    /\ \A i \in 1..Len(sent) : sent[i].stage = "lookup"
    /\ sent[Len(sent)].level = "DESIGN_TYPE"
    /\ \E i \in 1..Len(sent) : sent[i].level = "ZONE"

\* C6: once the resolver has gone through the levels, every document whose
\* parent key was resolved (or that has no parent) was sent for lookup although
\* an earlier level had an ERROR: result, and the result is an error with an
\* entry for every ERROR: answer and for every lookup left out for its parent.
C6_AggregateError ==
    ResolverEnded =>
        /\ \A i \in 1..Len(documents) :
             ~ParentMissing(documents[i].EntityType, documents[i].NamePath)
                 => LookupWasSent(OwnLookup(documents[i]))
        /\ \A r \in answers :
             HasErrorPrefix(r.id) =>
                 /\ returned["lookup"] = "err"
                 /\ Reported(r.lookup.EntityType, generateFullPath(r.lookup))
        /\ \A l \in excluded :
             /\ returned["lookup"] = "err"
             /\ Reported(l.EntityType, generateFullPath(l))

\* the levels above the level of the document
AncestorLevels(doc) == AncestryLevels(doc.EntityType) \ {doc.EntityType}

-----------------------------------------------------------------------------
(* Properties of bulkUploadContentVersions *)

\* the places of the content-document queries among the requests of the run
Queries == {i \in 1..Len(sent) : sent[i].stage = "query"}

\* the version whose id the document holds, 0 when it holds none
VersionOf(doc) ==
    IF \E k \in 1..nextVersion : Get(doc.SalesforceIds, "contentVersionId") = VersionId(k)
    THEN CHOOSE k \in 1..nextVersion : Get(doc.SalesforceIds, "contentVersionId") = VersionId(k)
    ELSE 0

\* C8: when the stage has ended in a run where no file read and no call failed,
\* every chunk was answered with one 201 sub-result per sub-request and the
\* query returned a record for every version, then exactly one content-document
\* query was issued, after every upload request, keyed by the ids of all the
\* versions created, every document holds the content-document id of its
\* version, and the stage returned success.
C8_OneQueryAfterUploads ==
    (returned["upload"] # "none" /\ faults = {}) =>
        /\ returned["upload"] = "ok"
        /\ Cardinality(Queries) = 1
        /\ \A q \in Queries :
             /\ \A i \in 1..Len(sent) : sent[i].stage = "upload" => i < q
             /\ Len(sent[q].ids) = Len(documents)
             /\ Range(sent[q].ids) = {VersionId(k) : k \in 1..nextVersion}
        /\ \A i \in 1..Len(documents) :
             /\ VersionOf(documents[i]) # 0
             /\ documents[i].ContentDocumentId = ContentDocId(VersionOf(documents[i]))

\* C9: whenever bulkUploadContentVersions has returned success every document
\* has a non-empty contentDocumentId, and the join stage is entered only then
\* (a document without one makes the stage return an error).
C9_SuccessMeansDurableIds ==
    (returned["upload"] = "ok" \/ pc \in {"join", "join_send", "done"}) =>
        /\ returned["upload"] = "ok"
        /\ \A i \in 1..Len(documents) : documents[i].ContentDocumentId # ""

\* an upload of two documents that returned success with both durable ids
C9_Witness ==
    /\ returned["upload"] = "ok"
    /\ Len(documents) = 2
    /\ \A i \in 1..Len(documents) : documents[i].ContentDocumentId # ""

\* the sub-result just read is a 201 with the token of a document of the collection
TokenSubResult(r, k) ==
    r.HttpStatusCode = 201 /\ k \in 0..(Len(documents) - 1) /\ r.ReferenceId = RefToken(k)

\* C10: reading a 201 sub-result that carries the token ref{k} changes no
\* document other than document k, and when its body is the created record
\* (a JSON object with the new id) document k holds that id as its content
\* version id afterwards; the place of the sub-result in the response and the
\* chunk the response belongs to play no part.
C10_TokenSelectsDocument ==
    [][ (pc = "upload_resp" /\ respCount' = respCount + 1) =>
          \A k \in 0..(Len(documents) - 1) :
              TokenSubResult(subResult', k) =>
                  /\ \A j \in 1..Len(documents) : j # k + 1 => documents'[j] = documents[j]
                  /\ subResult'.Body = "object" =>
                       documents' = [documents EXCEPT ![k + 1].SalesforceIds =
                                        Put(@, "contentVersionId", subResult'.id)]
                  /\ subResult'.Body # "object" => documents' = documents ]_vars

\* the response of the second chunk of the latest revision carried the token of
\* the first document, and that document holds the id of the sub-result
C10_Witness ==
    /\ rev = "part_002"
    /\ pc = "upload_resp"
    /\ batchStart = batchSize
    /\ respCount = 1
    /\ TokenSubResult(subResult, 0)
    /\ subResult.Body = "object"
    /\ Get(documents[1].SalesforceIds, "contentVersionId") = subResult.id

\* the composite upload calls of the run, in the order in which they were sent
UploadCalls ==
    LET U == {i \in 1..Len(sent) : sent[i].stage = "upload"}
    IN [k \in 1..Cardinality(U) |->
          sent[CHOOSE i \in U : Cardinality({j \in U : j <= i}) = k].refs]

\* the loop over the chunks has ended without an error
ChunksDone == pc \in {"upload_ids", "upload_dist"}

\* C11: when the loop over the chunks has ended without an error, for n
\* documents and chunk size b exactly ceil(n/b) composite upload calls were
\* sent; call c carries the tokens of the documents (c-1)*b .. min(c*b, n)-1 in
\* document order, so every call but the last has b sub-requests, the last has
\* what remains, and each document is in exactly one call.
C11_Chunking ==
    ChunksDone =>
        LET n == Len(documents)
            b == batchSize
        IN /\ Len(UploadCalls) = (n + b - 1) \div b
           /\ \A c \in 1..Len(UploadCalls) :
                /\ Len(UploadCalls[c]) = IF c * b <= n THEN b ELSE n - (c - 1) * b
                /\ \A k \in 1..Len(UploadCalls[c]) :
                     UploadCalls[c][k] = RefToken((c - 1) * b + k - 1)
           /\ \A d \in 0..(n - 1) :
                Cardinality({<<c, k>> \in (1..Len(UploadCalls)) \X (1..b) :
                               k <= Len(UploadCalls[c]) /\ UploadCalls[c][k] = RefToken(d)}) = 1

\* 26 documents went out as two calls of 25 and of 1 sub-requests
C11_Witness ==
    /\ ChunksDone
    /\ batchSize = 25
    /\ Len(documents) = batchSize + 1
    /\ Len(UploadCalls) = 2
    /\ Len(UploadCalls[1]) = 25
    /\ Len(UploadCalls[2]) = 1

\* the requests of the three batch-writing stages
CompositeRequests ==
    {i \in 1..Len(sent) : sent[i].stage \in {"upload", "distribution", "join"}}

RequestsOf(stage) == {i \in 1..Len(sent) : sent[i].stage = stage}

\* C13: once the loop over a chunk's sub-results reads one whose status is not
\* 201, bulkUploadContentVersions has returned an error naming that sub-result's
\* referenceId and status; the chunk it came with is the last request of the
\* run: no later chunk, no content-document query and no distribution request.
C13_StatusAborts ==
    "status" \in faults =>
        /\ pc = "failed"
        /\ returned["upload"] = "err"
        /\ subResult.HttpStatusCode # 201
        /\ returned["error"] = StatusError(subResult)
        /\ sent # <<>>
        /\ sent[Len(sent)] = UploadRequest(batchStart)
        /\ Cardinality(RequestsOf("upload")) = batchStart \div batchSize + 1
        /\ RequestsOf("query") = {}
        /\ RequestsOf("distribution") = {}

\* a 400 for ref1 read after a 201 of the first of two chunks
C13_Witness ==
    /\ "status" \in faults
    /\ Len(documents) > batchSize
    /\ batchSize > 1
    /\ batchStart = 0
    /\ respCount = 2
    /\ returned["error"] = "failed to create ContentVersion for reference ref1: status 400"

\* C14: when the read of a document's file fails, bulkUploadContentVersions has
\* returned an error, no composite upload call (nor any other call of the
\* stage) has been issued, and every document is as the stage received it.
C14_ReadFailure ==
    "read" \in faults =>
        /\ pc = "failed"
        /\ returned["upload"] = "err"
        /\ sent = <<>>
        /\ nextVersion = 0
        /\ \A k \in 1..Len(documents) : documents[k] = UnitDocument(k)

C14_Witness ==
    /\ "read" \in faults
    /\ Len(documents) = 2
    /\ returned["upload"] = "err"

\* the documents that have a content-document id and an id of their own entity
Qualifying ==
    {i \in 1..Len(documents) :
       /\ documents[i].ContentDocumentId # ""
       /\ Get(documents[i].SalesforceIds, ToLower(documents[i].EntityType)) # ""}

\* the join records sent so far, as pairs of request and place in it
JoinRecordsSent ==
    {<<i, k>> \in RequestsOf("join") \X (1..joinBatchSize) : k <= Len(sent[i].records)}

\* C15: bulkCreateAttachmentUploaders sends records of qualifying documents only
\* and at most one of each; when it returns success every qualifying document
\* has exactly one; documents that do not qualify do not make it fail when
\* another qualifies; it fails with "no valid records to create", with nothing
\* sent, exactly when no document qualifies.
C15_JoinRecords ==
    /\ \A p \in JoinRecordsSent : sent[p[1]].records[p[2]].doc \in Qualifying
    /\ \A p, q \in JoinRecordsSent :
          sent[p[1]].records[p[2]].doc = sent[q[1]].records[q[2]].doc => p = q
    /\ returned["join"] = "ok" =>
          \A d \in Qualifying : \E p \in JoinRecordsSent : sent[p[1]].records[p[2]].doc = d
    /\ (pc # "join" /\ Qualifying = {}) =>
          /\ returned["join"] = "err"
          /\ returned["error"] = "no valid records to create"
          /\ sent = <<>>
    /\ (pc # "join" /\ Qualifying # {} /\ sent = <<>>) => pc = "join_send"
    /\ returned["error"] = "no valid records to create" => Qualifying = {}

\* one chunk of 24 records for 26 documents of which two are skipped
C15_Witness ==
    /\ returned["join"] = "ok"
    /\ Len(documents) = joinBatchSize + 1
    /\ Cardinality(Qualifying) = joinBatchSize - 1
    /\ Cardinality(JoinRecordsSent) = joinBatchSize - 1
    /\ documents[1].ContentDocumentId = ""
    /\ Get(documents[2].SalesforceIds, "unit") = ""

\* C16: in part_002, when every file was read and every chunk uploaded without a
\* fault, bulkUploadContentVersions returns success whether or not a download
\* URL was obtained for a document, and the join record of a document without
\* one carries the deep link built from its contentDocumentId.
C16_NoUrlNoFailure ==
    (rev = "part_002" /\ faults = {}) =>
        /\ returned["upload"] # "err"
        /\ \A p \in JoinRecordsSent :
              LET rec == sent[p[1]].records[p[2]]
              IN Get(documents[rec.doc].SalesforceIds, "distributionUrl") = ""
                    => rec.Attachment_Url = DeepLink(rec.ContentDocumentId)

\* the tag the mapping gives a MIME type
TagOf(mime) ==
    CASE mime.main = "image" -> "Image"
      [] mime.main = "application" /\ mime.sub = "pdf" -> "PDF"
      [] mime.main = "video" -> "Video"
      [] OTHER -> "Image"

\* C17: the content-type tag of every join record is the tag of the MIME type of
\* the document's own file, the one at root/relativePath.
C17_TagOfOwnFile ==
    \A p \in JoinRecordsSent :
       LET rec == sent[p[1]].records[p[2]]
       IN rec.Content_Type = TagOf(fs.root[documents[rec.doc].RelativePath])

\* the files of the tree that do not parse
BadFiles == {i \in tree : FileUniverse[i].kind = "bad"}

\* C18: with the walker (part_001, part_002), when a file that is not hidden
\* fails to parse, collectDocuments has returned an error and no document,
\* whatever parsed before it, and ProcessDocuments has ended without a lookup,
\* upload or join request.
C18_WalkFailFast ==
    (rev # "document" /\ dir = "ok" /\ BadFiles # {} /\ pc # "start") =>
        /\ pc = "failed"
        /\ returned["collect"] = "err"
        /\ returned["process"] = "err"
        /\ documents = <<>>
        /\ sent = <<>>

\* a document is parsed before the file that fails
C18_Witness ==
    /\ rev = "part_002"
    /\ dir = "ok"
    /\ \E i \in BadFiles : \E d \in tree \cap DocIndices : d < i
    /\ returned["collect"] = "err"
    /\ documents = <<>>

\* C19: with the walker (part_001, part_002), when the walk yields no document
\* collectDocuments has returned an error and nothing has been requested; no
\* later stage is ever entered with an empty document set.
C19_EmptyCollectionFails ==
    rev # "document" =>
        /\ (dir = "ok" /\ DocumentsOf(tree) = <<>> /\ pc # "start") =>
              /\ pc = "failed"
              /\ returned["collect"] = "err"
              /\ sent = <<>>
        /\ pc \notin {"start", "failed"} => documents # <<>>

\* a root that holds a hidden file only
C19_Witness ==
    /\ rev = "part_002"
    /\ dir = "ok"
    /\ tree # {}
    /\ BadFiles = {}
    /\ DocumentsOf(tree) = <<>>
    /\ returned["collect"] = "err"

\* the place in the history at which the second run starts, 0 during the first
RunStart == IF RequestsOf("run") = {} THEN 0 ELSE CHOOSE m \in RequestsOf("run") : TRUE

\* the upload sub-requests of the second run for document d (0-based)
UploadedAgain(d) ==
    {<<i, k>> \in RequestsOf("upload") \X (1..Len(documents)) :
        i > RunStart /\ k <= Len(sent[i].refs) /\ sent[i].refs[k] = RefToken(d)}

\* the join records sent for document d (1-based) in both runs
JoinRecordsOf(d) == {p \in JoinRecordsSent : sent[p[1]].records[p[2]].doc = d}

-----------------------------------------------------------------------------
(* Properties of the parsers *)

\* the parser named has returned
ParsedBy(parser) == pc = "parsed" /\ parsed.parser = parser

\* the entity type the directory of a file stands for, "" where nothing is said
EntityOfDirectory(path) ==
    CASE Len(path) = 2 -> "PHASE"
      [] Len(path) = 3 /\ path[3] = "design_types" -> "DESIGN_TYPE"
      [] Len(path) = 3 -> "ZONE"
      [] Len(path) = 4 -> "BUILDING"
      [] Len(path) = 5 /\ path[5] = "units" -> "UNIT"
      [] OTHER -> ""

\* C21: the path-aware parser gives a file with a valid document-type code and a
\* leaf name the entity type of its directory: project/phase PHASE,
\* project/phase/zone ZONE, project/phase/zone/building BUILDING,
\* project/phase/zone/building/units UNIT, project/phase/design_types
\* DESIGN_TYPE, whatever the code is.
C21_EntityFromDirectory ==
    (/\ ParsedBy("walker")
     /\ setDocumentType(parsed.file[1].stem) # ""
     /\ Len(parsed.file) > 1
     /\ EntityOfDirectory(parsed.path) # "") =>
        /\ parsed.result.ok
        /\ parsed.result.EntityType = EntityOfDirectory(parsed.path)

\* the namePath keys of an entity type
KeysOf(entityType) ==
    CASE entityType = "PHASE" -> {"project", "phase"}
      [] entityType = "ZONE" -> {"project", "phase", "zone"}
      [] entityType = "BUILDING" -> {"project", "phase", "zone", "building"}
      [] entityType = "UNIT" -> {"project", "phase", "zone", "building", "unit"}
      [] entityType = "DESIGN_TYPE" -> {"project", "phase", "designType"}

\* C22: every record a parser returns has exactly the namePath keys of its
\* entity type.
C22_KeysOfEntityType ==
    (pc = "parsed" /\ parsed.result.ok) =>
        DOMAIN parsed.result.NamePath = KeysOf(parsed.result.EntityType)

\* C23: ParseFileName on docType_u_project_phase_zone_building_unit.ext gives a
\* UNIT whose namePath has the five keys, filled from the five components, the
\* unit without its extension.
C23_FlatUnit ==
    (/\ ParsedBy("flat")
     /\ Len(parsed.file) = 7
     /\ Str(parsed.file[1]) \in DOMAIN docTypes
     /\ Str(parsed.file[2]) = "u") =>
        /\ parsed.result.ok
        /\ parsed.result.EntityType = "UNIT"
        /\ parsed.result.NamePath =
              [project |-> parsed.file[3].stem, phase |-> parsed.file[4].stem,
               zone |-> parsed.file[5].stem, building |-> parsed.file[6].stem,
               unit |-> parsed.file[7].stem]

\* the number of name components an entity code takes
Arity == [u |-> 5, p |-> 2, z |-> 3, b |-> 4, dt |-> 3]

\* C24: ParseFileName returns an error and no record for a name of fewer than
\* three parts and for a name whose entity code is followed by a number of
\* components other than the code's arity; it returns a record for a known
\* document-type code, a known entity code and the right arity.
C24_FlatArity ==
    ParsedBy("flat") =>
        LET file == parsed.file
            known == /\ Len(file) >= 3
                     /\ Str(file[1]) \in DOMAIN docTypes
                     /\ Str(file[2]) \in DOMAIN Arity
        IN /\ Len(file) < 3 => ~ parsed.result.ok
           /\ (/\ Len(file) >= 2
               /\ Str(file[2]) \in DOMAIN Arity
               /\ Len(file) - 2 # Arity[Str(file[2])]) => ~ parsed.result.ok
           /\ (known /\ Len(file) - 2 = Arity[Str(file[2])]) => parsed.result.ok
           /\ ~ parsed.result.ok => DOMAIN parsed.result = {"ok", "err"}

\* bl_p_N1.pdf: a phase name with one component instead of two
C24_Witness ==
    /\ ParsedBy("flat")
    /\ Len(parsed.file) = 3
    /\ Str(parsed.file[1]) = "bl"
    /\ Str(parsed.file[2]) = "p"
    /\ parsed.file[3].ext = ".pdf"
    /\ parsed.result = ParseError("invalid filename format: wrong number of parts")

\* the document-type code table
DocumentTypes ==
    [bl |-> "Building Location", f |-> "Finish", fp |-> "Floor Plan", g |-> "Gallery",
     pp |-> "Project Plan", up |-> "Unit Plan", gd |-> "Generic Document"]

\* C25: both parsers take the seven document-type codes, with the labels of the
\* table, and answer any other code of a name long enough with the
\* unknown-document-type error.
C25_DocumentTypeCodes ==
    (pc = "parsed" /\ (parsed.parser = "flat" => Len(parsed.file) >= 3)) =>
        LET code == IF parsed.parser = "flat" THEN Str(parsed.file[1])
                    ELSE parsed.file[1].stem
        IN IF code \in DOMAIN DocumentTypes
           THEN /\ parsed.result # ParseError("unknown document type prefix")
                /\ parsed.result.ok => parsed.result.DocumentType = DocumentTypes[code]
           ELSE parsed.result = ParseError("unknown document type prefix")

-----------------------------------------------------------------------------
(* Properties of the parent gate of bulkLookupEntities *)

\* the entity a child hangs under: the parent level with the child's name path
\* cut down to the keys of that level
OwnParent(lookup) ==
    LET level == CASE lookup.EntityType = "ZONE" -> "PHASE"
                   [] lookup.EntityType = "BUILDING" -> "ZONE"
                   [] lookup.EntityType = "UNIT" -> "BUILDING"
                   [] lookup.EntityType = "DESIGN_TYPE" -> "PHASE"
        keys == CASE level = "PHASE" -> {"project", "phase"}
                  [] level = "ZONE" -> {"project", "phase", "zone"}
                  [] level = "BUILDING" -> {"project", "phase", "zone", "building"}
    IN EntityLookup(level, [k \in keys |-> Get(lookup.NamePath, k)])

\* the remote answered the lookup of the entity with an id
Resolved(entity) ==
    \E r \in answers : r.lookup = entity /\ ~HasErrorPrefix(r.id)

\* the lookups of the level-wise requests sent so far, below the PHASE level
ChildLookups ==
    UNION {Range(sent[k].lookups) :
             k \in {j \in 1..Len(sent) : sent[j].stage = "lookup" /\ sent[j].level # "PHASE"}}

\* C26: in the level-wise bulkLookupEntities (part_001, part_002) a child
\* entity is in a lookup request only if its own parent, the entity of the
\* parent level with the same ancestor name path, was resolved before; an
\* entity of the parent level that only has the same name does not suffice.
C26_OwnParentResolved ==
    rev \in {"part_001", "part_002"} =>
        \A l \in ChildLookups : Resolved(OwnParent(l))

-----------------------------------------------------------------------------
(* Properties of the ancestor synthesis of bulkLookupEntities, part_002 *)

\* the entities of a level some document needs: its own entity or an ancestor
NeededAt(level) ==
    {PathEntry(documents[i], level) :
       i \in {j \in 1..Len(documents) : level \in AncestryLevels(documents[j].EntityType)}}

\* the lookups of the requests sent for a level
SentAt(level) ==
    UNION {Range(sent[k].lookups) :
             k \in {j \in 1..Len(sent) : sent[j].stage = "lookup" /\ sent[j].level = level}}

\* C27: in part_002, once the loop has passed a level, every distinct entity of
\* that level needed by some document (its own entity or an ancestor) whose
\* parent was resolved is in the level's lookup request, also when two
\* entities of the level have the same leaf name.
C27_EveryNeededEntitySent ==
    rev = "part_002" =>
        \A k \in 1..(lvl - 1) :
            \A e \in NeededAt(levels[k]) :
                (levels[k] = "PHASE" \/ Resolved(OwnParent(e))) => e \in SentAt(levels[k])

-----------------------------------------------------------------------------
(* Properties of the reference tokens of a composite response *)

\* the tokens ref0 .. ref{n-1} of the run
IssuedTokens == {RefToken(k) : k \in 0..(Len(documents) - 1)}

\* C28: a 201 sub-result whose referenceId is not one of the tokens
\* ref0 .. ref{n-1} of the run (no number, malformed, negative, out of range)
\* changes no document and does not crash bulkUploadContentVersions.
C28_UnknownTokenIgnored ==
    [][(/\ pc = "upload_resp"
        /\ respCount' = respCount + 1
        /\ subResult'.HttpStatusCode = 201
        /\ subResult'.ReferenceId \notin IssuedTokens)
           => (documents' = documents /\ pc' # "panic")]_vars

-----------------------------------------------------------------------------
(* ProcessDocuments from the upload stage on: bulkUploadContentVersions on
   resolved documents, then bulkCreateAttachmentUploaders *)

NextUploadJoin ==
    \/ NextUpload
    \/ JoinPrepare
    \/ JoinSend

SpecUploadJoin == InitUpload /\ [][NextUploadJoin]_vars

\* bulkUploadContentVersions returns an error while it works on a chunk after
\* the first: the composite call fails or a sub-result is not a 201
LaterChunkFails ==
    /\ pc \in {"upload_send", "upload_resp"}
    /\ batchStart > 0
    /\ returned'["upload"] = "err"

\* the documents that carry a contentVersionId
WithVersion(docs) ==
    {i \in 1..Len(docs) : "contentVersionId" \in DOMAIN docs[i].SalesforceIds}

\* C29: allOrNone is atomic per chunk only. When bulkUploadContentVersions
\* fails on a chunk after the first, the versions the earlier chunks created
\* stay on the remote and the documents keep the contentVersionId the stage
\* stored on them; ProcessDocuments returns an error, and a run whose upload
\* stage returned an error has sent no join request.
C29_ChunkAtomicity ==
    /\ [][LaterChunkFails =>
            /\ nextVersion' = nextVersion
            /\ documents' = documents
            /\ pc' = "failed"
            /\ returned'["process"] = "err"]_vars
    /\ [](returned["upload"] = "err" =>
            /\ pc = "failed"
            /\ RequestsOf("join") = {})

\* the second chunk of 26 documents fails after the first chunk stored an id
C29_Witness ==
    /\ pc = "failed"
    /\ returned["upload"] = "err"
    /\ batchSize = 25
    /\ batchStart = batchSize
    /\ Len(documents) = batchSize + 1
    /\ nextVersion > 0
    /\ WithVersion(documents) # {}
    /\ \A i \in WithVersion(documents) : i <= batchSize

-----------------------------------------------------------------------------
(* gui.App and the processing handler of main *)

\* the processing runs started in one session of the window
MaxRuns == 2

\* the directories the folder dialog can return
GuiPaths == {"docsA", "docsB"}

\* App.Reset
Reset(g) ==
    [g EXCEPT !.processStarted = FALSE,
              !.progress = 0,
              !.status = "Ready to start",
              !.startEnabled = TRUE,
              !.logged = FALSE]

\* the positions of the handler goroutines that have not returned
ActiveRuns == {r \in 1..Len(gui.runs) : gui.runs[r] # "done"}

\* NewApp and App.Run: the window is shown, Start is disabled, no directory is
\* selected; exists is the set of directories present on disk
InitGui ==
    /\ \E present \in SUBSET GuiPaths :
         gui = [window |-> "main",
                documentsPath |-> "",
                pathLabel |-> "No directory selected",
                processStarted |-> FALSE,
                startEnabled |-> FALSE,
                dialog |-> "closed",
                status |-> "Select documents directory to begin",
                progress |-> 0,
                logged |-> FALSE,
                error |-> "",
                exists |-> present,
                runs |-> <<>>]
    /\ parsed = NoParse
    /\ rev = "part_002"
    /\ dir = "ok"
    /\ tree = {}
    /\ fs = PdfFiles({})
    /\ documents = <<>>
    /\ pc = "gui"
    /\ lvl = 1
    /\ foundIds = {}
    /\ lookupErrors = {}
    /\ sent = <<>>
    /\ answers = {}
    /\ excluded = {}
    /\ returned = NoResults
    /\ batchStart = 0
    /\ respCount = 0
    /\ subResult = NoSubResult
    /\ nextVersion = 0
    /\ faults = {}

\* App.handleStartProcessing, the callback of the Start button; a disabled
\* button does not call it, and the folder dialog covers the buttons while open
PressStart ==
    /\ pc = "gui"
    /\ gui.dialog = "closed"
    /\ gui.startEnabled
    /\ Len(gui.runs) < MaxRuns
    /\ gui' = IF gui.processStarted THEN gui
              ELSE IF gui.documentsPath = ""
              THEN [gui EXCEPT !.error = "Please select a documents directory first"]
              ELSE IF gui.documentsPath \notin gui.exists
              THEN [gui EXCEPT !.error = "Selected directory no longer exists",
                               !.documentsPath = "",
                               !.pathLabel = "No directory selected",
                               !.startEnabled = FALSE]
              ELSE [gui EXCEPT !.processStarted = TRUE,
                               !.startEnabled = FALSE,
                               !.progress = 0,
                               !.status = "Starting process...",
                               !.runs = Append(@, "authenticate")]
    /\ UNCHANGED <<parsed, rev, dir, tree, fs, pc, documents, sent, returned,
                   resolverVars, uploadVars>>

\* App.handleDirectorySelection, the callback of the Select Directory button,
\* up to folderDialog.Show(); the button is never disabled
SelectDirectory ==
    /\ pc = "gui"
    /\ gui.dialog = "closed"
    /\ \E cwdFails \in BOOLEAN :
         gui' = IF cwdFails
                THEN [gui EXCEPT !.error = "Failed to get current directory"]
                ELSE [gui EXCEPT !.dialog = "open"]
    /\ UNCHANGED <<parsed, rev, dir, tree, fs, pc, documents, sent, returned,
                   resolverVars, uploadVars>>

\* the callback of the folder dialog with a directory: Reset, then the path
DialogChoose ==
    /\ pc = "gui"
    /\ gui.dialog = "open"
    /\ \E path \in GuiPaths :
         LET g == Reset([gui EXCEPT !.dialog = "closed"])
         IN gui' = IF path \notin gui.exists
                   THEN [g EXCEPT !.error = "Selected directory does not exist"]
                   ELSE [g EXCEPT !.documentsPath = path,
                                  !.pathLabel = path,
                                  !.startEnabled = TRUE]
    /\ UNCHANGED <<parsed, rev, dir, tree, fs, pc, documents, sent, returned,
                   resolverVars, uploadVars>>

\* the callback of the folder dialog with an error or without a directory
DialogCancel ==
    /\ pc = "gui"
    /\ gui.dialog = "open"
    /\ \E failed \in BOOLEAN :
         gui' = [gui EXCEPT !.dialog = "closed",
                            !.error = IF failed THEN "Directory Selection Error" ELSE @]
    /\ UNCHANGED <<parsed, rev, dir, tree, fs, pc, documents, sent, returned,
                   resolverVars, uploadVars>>

\* the handler set by main, up to the return of auth.Authenticate
RunAuthenticate ==
    /\ pc = "gui"
    /\ \E r \in ActiveRuns, ok \in BOOLEAN :
         /\ gui.runs[r] = "authenticate"
         /\ gui' = IF ok
                   THEN [gui EXCEPT !.status = "Authenticating...",
                                    !.progress = 1,
                                    !.logged = TRUE,
                                    !.runs[r] = "process"]
                   ELSE [Reset(gui) EXCEPT !.error = "Authentication Error",
                                           !.runs[r] = "done"]
    /\ UNCHANGED <<parsed, rev, dir, tree, fs, pc, documents, sent, returned,
                   resolverVars, uploadVars>>

\* the handler from the call of processor.ProcessDocuments to its return; a run
\* that succeeds does not call Reset
RunProcess ==
    /\ pc = "gui"
    /\ \E r \in ActiveRuns, ok \in BOOLEAN :
         /\ gui.runs[r] = "process"
         /\ gui' = IF ok
                   THEN [gui EXCEPT !.status = "Completed",
                                    !.progress = 10,
                                    !.logged = TRUE,
                                    !.runs[r] = "done"]
                   ELSE [Reset(gui) EXCEPT !.error = "Processing Error",
                                           !.runs[r] = "done"]
    /\ UNCHANGED <<parsed, rev, dir, tree, fs, pc, documents, sent, returned,
                   resolverVars, uploadVars>>

\* the selected directory is removed from disk while the window is open
RemoveDirectory ==
    /\ pc = "gui"
    /\ \E path \in gui.exists : gui' = [gui EXCEPT !.exists = @ \ {path}]
    /\ UNCHANGED <<parsed, rev, dir, tree, fs, pc, documents, sent, returned,
                   resolverVars, uploadVars>>

NextGui ==
    \/ PressStart
    \/ SelectDirectory
    \/ DialogChoose
    \/ DialogCancel
    \/ RunAuthenticate
    \/ RunProcess
    \/ RemoveDirectory

SpecGui == InitGui /\ [][NextGui]_vars

-----------------------------------------------------------------------------
(* Properties of the window *)

\* C30: at most one processing run is active at any time: while a handler
\* started by App.handleStartProcessing has not returned, no sequence of
\* presses of Start and selections of a directory starts a second one.
C30_OneActiveRun == Cardinality(ActiveRuns) <= 1

====
